---- MODULE Spec2Model ----
(***************************************************************************)
(* The OpenAI-compatible chat-completion bridge of the gateway             *)
(* (src/gateway/openai-http.ts): one HTTP request becomes one agent run;   *)
(* in streaming mode the run's assistant events are re-framed as SSE       *)
(* chunks while the agent invocation runs as a background task.            *)
(*                                                                         *)
(* JavaScript runs every callback to completion, so each action below is   *)
(* one callback: the synchronous part of the request handler, one          *)
(* delivery of an agent event to the registered listeners, the request's   *)
(* "close" handler, and the continuation of the awaited agent command      *)
(* (success or failure, with its catch and finally blocks).                *)
(***************************************************************************)
EXTENDS Integers, Sequences, FiniteSets, TLC

\* The number of events the agent subsystem publishes in one behaviour.
MaxEvents == 3

\* The run identifiers minted for the requests ("chatcmpl_<uuid>"), and one
\* identifier of a run that belongs to no request of this handler.
Runs == {"chatcmpl_1", "chatcmpl_2"}

OtherRunId == "run_other"

\* The requests of one behaviour of Spec: a single request, whose run shares
\* the event feed with the events of runs that are not its own.
SoloRuns == {"chatcmpl_1"}

(***************************************************************************)
(* JavaScript values.  An object is a function from its present keys; the  *)
(* empty object has an empty domain.  undefined and null are two records   *)
(* of their own, a string or a number met where the code tests typeof is   *)
(* tagged with its type.                                                   *)
(***************************************************************************)
Undefined == [undefined |-> TRUE]

Null == [null |-> TRUE]

EmptyObj == <<>>

Str(s) == [t |-> "string", v |-> s]

Num(n) == [t |-> "number", v |-> n]

\* obj?.f
Opt(obj, f) == IF f \in DOMAIN obj THEN obj[f] ELSE Undefined

\* typeof x === "string"
TypeofString(x) == "t" \in DOMAIN x /\ x.t = "string"

\* obj.f ?? d, for a numeric field
Nullish(obj, f, d) == IF f \in DOMAIN obj THEN obj[f] ELSE d

\* !x, for a value that is an object, undefined or null
Falsy(x) == x = Undefined \/ x = Null

(***************************************************************************)
(* Inputs: the agent's results and errors, and the events it publishes.    *)
(***************************************************************************)
UsageFull == [input |-> 100, cacheRead |-> 50, output |-> 50, total |-> 200]

UsageNoTotal == [input |-> 100, output |-> 50]

Meta(usage) == [agentMeta |-> [usage |-> usage]]

ResultNoPayloads == [payloads |-> <<>>]

ResultDone == [payloads |-> <<[text |-> "Done."]>>, meta |-> Meta(UsageNoTotal)]

ResultMixed ==
    [payloads |-> <<[text |-> "A"], EmptyObj, [text |-> ""], [text |-> "B"]>>,
     meta |-> Meta(UsageFull)]

AgentResults == {Null, ResultNoPayloads, ResultDone, ResultMixed}

\* String(err) of the error agentCommand rejects with.
AgentErrors == {"Error: boom"}

AssistantData ==
    { EmptyObj,
      [delta |-> Str("Hello")],
      [delta |-> Str(" world")],
      [text |-> Str("t")],
      [delta |-> Str(""), text |-> Str("t")],
      [delta |-> Num(42), text |-> Str("t")] }

AgentEvents ==
    { [runId |-> r, stream |-> "assistant", data |-> d] : r \in Runs, d \in AssistantData }
    \cup { [runId |-> r, stream |-> "lifecycle", data |-> [phase |-> "end"]] : r \in Runs }
    \cup { [runId |-> OtherRunId, stream |-> "assistant", data |-> [delta |-> Str("Hello")]] }

WebhookUrls == {Undefined, Str("https://example.com/webhook")}

VARIABLES
    usageWebhookUrl,     \* opts.usageWebhookUrl
    pc,                  \* per run: idle, rejected, awaiting, resolved, failed
    stream,              \* per run: Boolean(payload.stream)
    wroteRole,           \* per run: the closure flag wroteRole
    sawAssistantDelta,   \* per run: the closure flag sawAssistantDelta
    closed,              \* per run: the closure flag closed
    streamResult,        \* per run: the closure variable streamResult
    subscribed,          \* per run: its listener is in the event registry
    closeHandler,        \* per run: "none", "armed" or "fired" (req.on("close"))
    res,                 \* per run: what was written to the response stream
    json,                \* per run: the sendJson responses
    webhookCalls,        \* per run: the calls of sendUsageWebhook
    emitted,             \* per run: the events the handler emitted itself
    feed,                \* per run: every event published for it, in order
    wasClosed,           \* per run: closed, as the agent command settled
    nPublished,          \* events published by the agent subsystem so far
    webhookSettled       \* per run: how the fetch of each sendUsageWebhook ended

\* The usage-webhook extension (extensions/usage-webhook/src/service.ts).
VARIABLES
    delivery,            \* one call of sendWithRetry
    service,             \* the variables createUsageWebhookService closes over
    flights,             \* the deliveries flush started, in the order of their start
    lastFlush,           \* what the latest call of flush did
    accepted,            \* the payloads pushed onto batch, in order
    lifecycle,           \* where start and stop of the service are
    logged,              \* what start wrote to ctx.logger
    nDiag,               \* diagnostic events emitted so far
    startedWith,         \* the configuration, environment and context of start
    subscriptions,       \* how many listeners of the service ctx.onDiagnosticEvent holds
    intervals            \* how many interval timers of the service are set

serviceVars == <<service, flights, lastFlush, accepted, lifecycle, logged, nDiag,
                 startedWith, subscriptions, intervals>>

\* extractUsageFromResult taken alone: its argument and what it returned.
VARIABLES
    usageArg,
    usageOut

usageVars == <<usageArg, usageOut>>

\* The LLM key manager (extensions/llm-key-manager/src/service.ts).
VARIABLES
    authFile,            \* the content of ~/.openclaw/auth-profiles.json
    requests,            \* the mutating requests received, in the order of arrival
    applied              \* the requests answered 200, in the order of their answers

keyVars == <<authFile, requests, applied>>

\* What the handlers of the chat-completion bridge leave alone.
extensionVars == <<delivery, serviceVars, usageVars, keyVars>>

\* The state of the handlers of the chat-completion bridge.
handlerVars == <<usageWebhookUrl, pc, stream, wroteRole, sawAssistantDelta, closed,
                 streamResult, subscribed, closeHandler, res, json, webhookCalls,
                 emitted, feed, wasClosed, nPublished, webhookSettled>>

\* What the usage-webhook extension leaves alone.
bridgeVars == <<handlerVars, usageVars, keyVars>>

vars == <<usageWebhookUrl, pc, stream, wroteRole, sawAssistantDelta, closed,
          streamResult, subscribed, closeHandler, res, json, webhookCalls,
          emitted, feed, wasClosed, nPublished, webhookSettled, extensionVars>>

(***************************************************************************)
(* extractUsageFromResult                                                  *)
(***************************************************************************)
\* extractUsageFromResult returning no total_tokens when there is no usage.
ExtractUsageNoTotalWhenAbsent(result) ==
    LET usage == Opt(Opt(Opt(result, "meta"), "agentMeta"), "usage")
    IN  IF Falsy(usage)
        THEN [prompt_tokens |-> 0, completion_tokens |-> 0]
        ELSE LET promptTokens == Nullish(usage, "input", 0)
                                 + Nullish(usage, "cacheRead", 0)
                                 + Nullish(usage, "cacheWrite", 0)
                 completionTokens == Nullish(usage, "output", 0)
                 totalTokens == Nullish(usage, "total", promptTokens + completionTokens)
             IN  [prompt_tokens |-> promptTokens,
                  completion_tokens |-> completionTokens,
                  total_tokens |-> totalTokens]

\* extractUsageFromResult leaving the cache tokens out of prompt_tokens.
ExtractUsageIgnoresCache(result) ==
    LET usage == Opt(Opt(Opt(result, "meta"), "agentMeta"), "usage")
    IN  IF Falsy(usage)
        THEN [prompt_tokens |-> 0, completion_tokens |-> 0, total_tokens |-> 0]
        ELSE LET promptTokens == Nullish(usage, "input", 0)
                 completionTokens == Nullish(usage, "output", 0)
                 totalTokens == Nullish(usage, "total", promptTokens + completionTokens)
             IN  [prompt_tokens |-> promptTokens,
                  completion_tokens |-> completionTokens,
                  total_tokens |-> totalTokens]

\* extractUsageFromResult deriving total_tokens even when total is present.
ExtractUsageDerivesTotal(result) ==
    LET usage == Opt(Opt(Opt(result, "meta"), "agentMeta"), "usage")
    IN  IF Falsy(usage)
        THEN [prompt_tokens |-> 0, completion_tokens |-> 0, total_tokens |-> 0]
        ELSE LET promptTokens == Nullish(usage, "input", 0)
                                 + Nullish(usage, "cacheRead", 0)
                                 + Nullish(usage, "cacheWrite", 0)
                 completionTokens == Nullish(usage, "output", 0)
             IN  [prompt_tokens |-> promptTokens,
                  completion_tokens |-> completionTokens,
                  total_tokens |-> promptTokens + completionTokens]

ExtractUsageFromResult(result) ==
    LET usage == Opt(Opt(Opt(result, "meta"), "agentMeta"), "usage")
    IN  IF Falsy(usage)
        THEN [prompt_tokens |-> 0, completion_tokens |-> 0, total_tokens |-> 0]
        ELSE LET promptTokens == Nullish(usage, "input", 0)
                                 + Nullish(usage, "cacheRead", 0)
                                 + Nullish(usage, "cacheWrite", 0)
                 completionTokens == Nullish(usage, "output", 0)
                 totalTokens == Nullish(usage, "total", promptTokens + completionTokens)
             IN  [prompt_tokens |-> promptTokens,
                  completion_tokens |-> completionTokens,
                  total_tokens |-> totalTokens]

(***************************************************************************)
(* buildUsageWebhookPayload.  The cost is kept in units of 10^-9 dollars   *)
(* (0.003 and 0.015 dollars per million tokens are 3 and 15 units per      *)
(* token); the timestamp is left out.                                      *)
(***************************************************************************)
BuildUsageWebhookPayload(runId, result, usage) ==
    LET agentMeta == Opt(Opt(result, "meta"), "agentMeta")
        rawUsage == Opt(agentMeta, "usage")
        base == [event |-> "model.usage", runId |-> runId, model |-> "openclaw",
                 provider |-> Opt(agentMeta, "provider"), usage |-> usage,
                 durationMs |-> Opt(Opt(result, "meta"), "durationMs")]
    IN  IF ~Falsy(rawUsage)
           /\ (Nullish(rawUsage, "input", 0) # 0 \/ Nullish(rawUsage, "output", 0) # 0)
        THEN LET inputCost == Nullish(rawUsage, "input", 0) * 3
                 outputCost == Nullish(rawUsage, "output", 0) * 15
             IN  base @@
                 [cost |-> [input |-> inputCost, output |-> outputCost,
                            total |-> inputCost + outputCost]]
        ELSE base

(***************************************************************************)
(* The content of a result: payloads.map(text).filter(Boolean).join, or    *)
(* the fallback when there is no payload.                                  *)
(***************************************************************************)
RECURSIVE JoinTexts(_)
JoinTexts(texts) ==
    IF Len(texts) = 0 THEN ""
    ELSE IF Len(texts) = 1 THEN texts[1]
    ELSE texts[1] \o "\n\n" \o JoinTexts(Tail(texts))

PayloadText(p) == IF "text" \in DOMAIN p THEN p.text ELSE ""

ResultContent(result) ==
    LET payloads == Opt(result, "payloads")
    IN  IF "payloads" \in DOMAIN result /\ Len(payloads) > 0
        THEN JoinTexts(SelectSeq([i \in 1..Len(payloads) |-> PayloadText(payloads[i])],
                                 LAMBDA t : t # ""))
        ELSE "No response from OpenClaw."

(***************************************************************************)
(* The chunks, and the response stream as the sequence of what was done    *)
(* to it: a chunk written (by the event listener or by the agent task),    *)
(* the [DONE] sentinel, the end of the stream.                             *)
(***************************************************************************)
Chunk(runId, choice) ==
    [id |-> runId, object |-> "chat.completion.chunk", choices |-> <<choice>>]

RoleChunk(runId) == Chunk(runId, [index |-> 0, delta |-> [role |-> "assistant"]])

ContentChunk(runId, content, finishReason) ==
    Chunk(runId, [index |-> 0, delta |-> [content |-> content],
                  finish_reason |-> finishReason])

\* The terminal chunk as it was before it carried the usage.
FinalChunkNoUsage(runId, usage) ==
    Chunk(runId, [index |-> 0, delta |-> EmptyObj, finish_reason |-> Str("stop")])

FinalChunk(runId, usage) ==
    Chunk(runId, [index |-> 0, delta |-> EmptyObj, finish_reason |-> Str("stop")])
    @@ [usage |-> usage]

WriteSse(log, by, data) == Append(log, [op |-> "write", by |-> by, data |-> data])

WriteDone(log) == Append(log, [op |-> "done"])

End(log) == Append(log, [op |-> "end"])

\* The closure of one request: everything its callbacks read and write.
Closure(r) ==
    [wroteRole |-> wroteRole[r], sawAssistantDelta |-> sawAssistantDelta[r],
     closed |-> closed[r], streamResult |-> streamResult[r],
     subscribed |-> subscribed[r], res |-> res[r], json |-> json[r],
     webhookCalls |-> webhookCalls[r], emitted |-> emitted[r]]

Closures == [r \in Runs |-> Closure(r)]

SetClosures(cl) ==
    /\ wroteRole' = [r \in Runs |-> cl[r].wroteRole]
    /\ sawAssistantDelta' = [r \in Runs |-> cl[r].sawAssistantDelta]
    /\ closed' = [r \in Runs |-> cl[r].closed]
    /\ streamResult' = [r \in Runs |-> cl[r].streamResult]
    /\ subscribed' = [r \in Runs |-> cl[r].subscribed]
    /\ res' = [r \in Runs |-> cl[r].res]
    /\ json' = [r \in Runs |-> cl[r].json]
    /\ webhookCalls' = [r \in Runs |-> cl[r].webhookCalls]
    /\ emitted' = [r \in Runs |-> cl[r].emitted]

(***************************************************************************)
(* The listener given to onAgentEvent.                                     *)
(***************************************************************************)
EventContent(evt) ==
    LET delta == Opt(evt.data, "delta")
        text == Opt(evt.data, "text")
    IN  IF TypeofString(delta) THEN delta.v
        ELSE IF TypeofString(text) THEN text.v
        ELSE ""

\* The listener without the assignment wroteRole = true.
OnAgentEventRoleEveryDelta(runId, evt, c) ==
    IF evt.runId # runId \/ c.closed \/ evt.stream # "assistant" \/ EventContent(evt) = ""
    THEN c
    ELSE [c EXCEPT !.sawAssistantDelta = TRUE,
                   !.res = WriteSse(WriteSse(@, "listener", RoleChunk(runId)), "listener",
                                    ContentChunk(runId, EventContent(evt), Null))]

\* The listener skipping a delta whose text repeats the chunk before it.
OnAgentEventDropsRepeat(runId, evt, c) ==
    IF evt.runId # runId \/ c.closed \/ evt.stream # "assistant" \/ EventContent(evt) = ""
    THEN c
    ELSE IF ~c.wroteRole
    THEN [c EXCEPT !.wroteRole = TRUE, !.sawAssistantDelta = TRUE,
                   !.res = WriteSse(WriteSse(@, "listener", RoleChunk(runId)), "listener",
                                    ContentChunk(runId, EventContent(evt), Null))]
    ELSE IF c.res[Len(c.res)].data = ContentChunk(runId, EventContent(evt), Null)
    THEN c
    ELSE [c EXCEPT !.sawAssistantDelta = TRUE,
                   !.res = WriteSse(@, "listener",
                                    ContentChunk(runId, EventContent(evt), Null))]

\* The listener without its test of evt.runId.
OnAgentEventNoFilter(runId, evt, c) ==
    IF c.closed THEN c
    ELSE IF evt.stream = "assistant"
    THEN LET content == EventContent(evt)
             c1 == IF ~c.wroteRole
                   THEN [c EXCEPT !.wroteRole = TRUE,
                                  !.res = WriteSse(@, "listener", RoleChunk(runId))]
                   ELSE c
         IN  IF content = "" THEN c
             ELSE [c1 EXCEPT !.sawAssistantDelta = TRUE,
                             !.res = WriteSse(@, "listener",
                                              ContentChunk(runId, content, Null))]
    ELSE c

\* The listener announcing the role before it looks at the content.
OnAgentEventRoleBeforeContent(runId, evt, c) ==
    IF evt.runId # runId THEN c
    ELSE IF c.closed THEN c
    ELSE IF evt.stream = "assistant"
    THEN LET content == EventContent(evt)
             c1 == IF ~c.wroteRole
                   THEN [c EXCEPT !.wroteRole = TRUE,
                                  !.res = WriteSse(@, "listener", RoleChunk(runId))]
                   ELSE c
         IN  IF content = "" THEN c1
             ELSE [c1 EXCEPT !.sawAssistantDelta = TRUE,
                             !.res = WriteSse(@, "listener",
                                              ContentChunk(runId, content, Null))]
    ELSE c

OnAgentEvent(runId, evt, c) ==
    IF evt.runId # runId THEN c
    ELSE IF c.closed THEN c
    ELSE IF evt.stream = "assistant"
    THEN LET content == EventContent(evt)
             c1 == IF ~c.wroteRole
                   THEN [c EXCEPT !.wroteRole = TRUE,
                                  !.res = WriteSse(@, "listener", RoleChunk(runId))]
                   ELSE c
         IN  IF content = "" THEN c
             ELSE [c1 EXCEPT !.sawAssistantDelta = TRUE,
                             !.res = WriteSse(@, "listener",
                                              ContentChunk(runId, content, Null))]
    ELSE c

\* The event registry calls every registered listener with the event.
Dispatch(evt, cl) ==
    [r \in Runs |-> IF cl[r].subscribed THEN OnAgentEvent(r, evt, cl[r]) ELSE cl[r]]

Published(evt, cl) ==
    IF evt.runId \in Runs
    THEN [feed EXCEPT ![evt.runId] =
              Append(@, [evt |-> evt, live |-> cl[evt.runId].subscribed])]
    ELSE feed

(***************************************************************************)
(* The background task of a streaming request: the continuation of the     *)
(* awaited agent command, its catch block and its finally block.           *)
(***************************************************************************)
SendUsageWebhook(c, runId, result, usage) ==
    IF ~Falsy(usageWebhookUrl)
    THEN [c EXCEPT !.webhookCalls =
              Append(@, [webhookUrl |-> usageWebhookUrl.v,
                         payload |-> BuildUsageWebhookPayload(runId, result, usage),
                         after |-> [res |-> Len(c.res), json |-> Len(c.json)]])]
    ELSE c

\* The synthesis taking the fallback whenever the joined text is empty.
SynthesizeFallbackWhenEmpty(runId, c) ==
    LET c1 == IF ~c.wroteRole
              THEN [c EXCEPT !.wroteRole = TRUE,
                             !.res = WriteSse(@, "task", RoleChunk(runId))]
              ELSE c
        content == IF ResultContent(c.streamResult) = ""
                   THEN "No response from OpenClaw."
                   ELSE ResultContent(c.streamResult)
    IN  [c1 EXCEPT !.sawAssistantDelta = TRUE,
                   !.res = WriteSse(@, "task", ContentChunk(runId, content, Null))]

Synthesize(runId, c) ==
    LET c1 == IF ~c.wroteRole
              THEN [c EXCEPT !.wroteRole = TRUE,
                             !.res = WriteSse(@, "task", RoleChunk(runId))]
              ELSE c
    IN  [c1 EXCEPT !.sawAssistantDelta = TRUE,
                   !.res = WriteSse(@, "task",
                                    ContentChunk(runId, ResultContent(c.streamResult), Null))]

\* The try block without its early return when closed.
StreamTryIgnoresClosed(runId, result, c) ==
    LET c0 == [c EXCEPT !.streamResult = result]
        c1 == IF ~c0.sawAssistantDelta THEN Synthesize(runId, c0) ELSE c0
        usage == ExtractUsageFromResult(c0.streamResult)
        c2 == [c1 EXCEPT !.res = WriteSse(@, "task", FinalChunk(runId, usage))]
    IN  SendUsageWebhook(c2, runId, c0.streamResult, usage)

\* The try block synthesizing the content whether or not deltas were seen.
StreamTryAlwaysSynthesizes(runId, result, c) ==
    LET c0 == [c EXCEPT !.streamResult = result]
        c1 == Synthesize(runId, c0)
        usage == ExtractUsageFromResult(c0.streamResult)
        c2 == [c1 EXCEPT !.res = WriteSse(@, "task", FinalChunk(runId, usage))]
    IN  IF c0.closed THEN c0
        ELSE SendUsageWebhook(c2, runId, c0.streamResult, usage)

\* The try block handing the result to the webhook before the final chunk.
StreamTryWebhookFirst(runId, result, c) ==
    LET c0 == [c EXCEPT !.streamResult = result]
        c1 == IF ~c0.sawAssistantDelta THEN Synthesize(runId, c0) ELSE c0
        usage == ExtractUsageFromResult(c0.streamResult)
        c2 == SendUsageWebhook(c1, runId, c0.streamResult, usage)
    IN  IF c0.closed THEN c0
        ELSE [c2 EXCEPT !.res = WriteSse(@, "task", FinalChunk(runId, usage))]

StreamTry(runId, result, c) ==
    LET c0 == [c EXCEPT !.streamResult = result]
        c1 == IF ~c0.sawAssistantDelta THEN Synthesize(runId, c0) ELSE c0
        usage == ExtractUsageFromResult(c0.streamResult)
        c2 == [c1 EXCEPT !.res = WriteSse(@, "task", FinalChunk(runId, usage))]
    IN  IF c0.closed THEN c0
        ELSE SendUsageWebhook(c2, runId, c0.streamResult, usage)

LifecycleError(runId) ==
    [runId |-> runId, stream |-> "lifecycle", data |-> [phase |-> "error"]]

\* The catch block without its emitAgentEvent.
StreamCatchNoEmit(runId, err, c) ==
    IF c.closed THEN c
    ELSE [c EXCEPT !.res = WriteSse(@, "task",
                                    ContentChunk(runId, "Error: " \o err, Str("stop")))]

\* The catch block reporting the (empty) usage of the failed run.
StreamCatchReportsUsage(runId, err, c) ==
    IF c.closed THEN c
    ELSE SendUsageWebhook(
             [c EXCEPT !.res = WriteSse(@, "task",
                                        ContentChunk(runId, "Error: " \o err, Str("stop"))),
                       !.emitted = Append(@, LifecycleError(runId))],
             runId, c.streamResult, ExtractUsageFromResult(c.streamResult))

StreamCatch(runId, err, c) ==
    IF c.closed THEN c
    ELSE [c EXCEPT !.res = WriteSse(@, "task",
                                    ContentChunk(runId, "Error: " \o err, Str("stop"))),
                   !.emitted = Append(@, LifecycleError(runId))]

\* The finally block without its test of closed.
StreamFinallyUnguarded(c) ==
    [c EXCEPT !.closed = TRUE, !.subscribed = FALSE, !.res = End(WriteDone(@))]

\* The finally block doing nothing.
StreamFinallyLeavesOpen(c) == c

StreamFinally(c) ==
    IF ~c.closed
    THEN [c EXCEPT !.closed = TRUE, !.subscribed = FALSE, !.res = End(WriteDone(@))]
    ELSE c

(***************************************************************************)
(* The non-streaming request: the continuation of the awaited agent        *)
(* command and its catch block.                                            *)
(***************************************************************************)
SendJson(c, status, body) == [c EXCEPT !.json = Append(@, [status |-> status, body |-> body])]

NonStreamTry(runId, result, c) ==
    LET content == ResultContent(result)
        usage == ExtractUsageFromResult(result)
        c1 == SendUsageWebhook(c, runId, result, usage)
    IN  SendJson(c1, 200,
                 [id |-> runId, object |-> "chat.completion",
                  choices |-> <<[index |-> 0,
                                 message |-> [role |-> "assistant", content |-> content],
                                 finish_reason |-> "stop"]>>,
                  usage |-> usage])

\* The catch block answering nothing.
NonStreamCatchSilent(err, c) == c

NonStreamCatch(err, c) ==
    SendJson(c, 500, [error |-> [message |-> err, type |-> "api_error"]])

\* The close handler without its unsubscribe().
OnCloseKeepsSubscription(c) == [c EXCEPT !.closed = TRUE]

\* req.on("close", ...)
OnClose(c) == [c EXCEPT !.closed = TRUE, !.subscribed = FALSE]

(***************************************************************************)
(* sendWithRetry: one delivery.  A delivery is at rest ("idle", "done"),   *)
(* awaiting the fetch of attempt number attempt ("fetching"), or awaiting  *)
(* the backoff timer after it ("sleeping").                                *)
(***************************************************************************)
NoDelivery ==
    [phase |-> "idle", maxRetries |-> 0, attempt |-> 0, fetches |-> 0,
     outcomes |-> <<>>, delays |-> <<>>, result |-> Undefined, errors |-> 0]

\* What a fetch can come to: a response with a status, or a throw (a
\* network error, or the AbortError of the timeoutMs timer).
Response(status) == [status |-> status]

Threw == [threw |-> "Error"]

Statuses == {200, 299, 399, 400, 404, 499, 500}

FetchOutcomes == {Response(st) : st \in Statuses} \cup {Threw}

\* response.ok
ResponseOk(o) == "status" \in DOMAIN o /\ o.status >= 200 /\ o.status <= 299

\* response.status >= 400 && response.status < 500
ClientError(o) == "status" \in DOMAIN o /\ o.status >= 400 /\ o.status < 500

BackoffBaseMs == 100

BackoffCapMs == 5000

RECURSIVE Pow(_, _)
Pow(b, e) == IF e = 0 THEN 1 ELSE b * Pow(b, e - 1)

Min(a, b) == IF a <= b THEN a ELSE b

\* The delay without its cap.
BackoffDelayUncapped(attempt) == BackoffBaseMs * Pow(2, attempt)

\* Math.min(100 * Math.pow(2, attempt), 5000)
BackoffDelay(attempt) == Min(BackoffBaseMs * Pow(2, attempt), BackoffCapMs)

\* The head of a loop that runs once more: attempt <= maxRetries + 1.
LoopHeadOneMore(d) ==
    IF d.attempt <= d.maxRetries + 1
    THEN [d EXCEPT !.phase = "fetching", !.fetches = @ + 1]
    ELSE [d EXCEPT !.phase = "done", !.result = FALSE, !.errors = @ + 1]

\* The head of the for loop: another attempt fetches, or the loop is over
\* and the failure is logged.
LoopHead(d) ==
    IF d.attempt <= d.maxRetries
    THEN [d EXCEPT !.phase = "fetching", !.fetches = @ + 1]
    ELSE [d EXCEPT !.phase = "done", !.result = FALSE, !.errors = @ + 1]

\* sendWithRetry(url, payload, headers, timeoutMs, maxRetries, logger), up
\* to its first await.
SendWithRetry(maxRetries) == LoopHead([NoDelivery EXCEPT !.maxRetries = maxRetries])

\* The loop body backing off after the last attempt too.
AfterFailureAlwaysSleeps(d) ==
    [d EXCEPT !.phase = "sleeping", !.delays = Append(@, BackoffDelay(d.attempt))]

\* The rest of the loop body after a failure that is retried.
AfterFailure(d) ==
    IF d.attempt < d.maxRetries
    THEN [d EXCEPT !.phase = "sleeping", !.delays = Append(@, BackoffDelay(d.attempt))]
    ELSE LoopHead([d EXCEPT !.attempt = @ + 1])

\* The continuation with the response.ok branch taken away.
AfterFetchIgnoresOk(d, o) ==
    LET d1 == [d EXCEPT !.outcomes = Append(@, o)]
    IN  IF ClientError(o)
        THEN [d1 EXCEPT !.phase = "done", !.result = FALSE, !.errors = @ + 1]
        ELSE AfterFailure(d1)

\* The continuation with the 4xx branch taken away.
AfterFetchRetriesClientError(d, o) ==
    LET d1 == [d EXCEPT !.outcomes = Append(@, o)]
    IN  IF ResponseOk(o) THEN [d1 EXCEPT !.phase = "done", !.result = TRUE]
        ELSE AfterFailure(d1)

\* The continuation of await fetch(...).
AfterFetch(d, o) ==
    LET d1 == [d EXCEPT !.outcomes = Append(@, o)]
    IN  IF ResponseOk(o) THEN [d1 EXCEPT !.phase = "done", !.result = TRUE]
        ELSE IF ClientError(o)
             THEN [d1 EXCEPT !.phase = "done", !.result = FALSE, !.errors = @ + 1]
             ELSE AfterFailure(d1)

\* The continuation of the backoff timer: attempt++ and the loop head.
AfterBackoff(d) == LoopHead([d EXCEPT !.attempt = @ + 1])

(***************************************************************************)
(* createUsageWebhookService: the closure, flush, start's listener and     *)
(* timer, stop.  The operators work on a record w of the service's         *)
(* variables, the deliveries in flight and the latest flush.               *)
(***************************************************************************)
DEFAULT_WEBHOOK_URL == "https://mioqlnjhjisubolpscfh.supabase.co/functions/v1/usage-log"

\* A reference to a function, a timer or a logger.
Ref(name) == [ref |-> name]

\* !x, for a string, undefined or null
FalsyString(x) == Falsy(x) \/ x = Str("")

\* a || b
OrElse(a, b) == IF FalsyString(a) THEN b ELSE a

\* String.prototype.trim, on the strings of the configurations below.
Trim(str) ==
    CASE str = "  " -> ""
      [] str = " https://hooks.example/usage " -> "https://hooks.example/usage"
      [] OTHER -> str

\* x?.trim()
OptTrim(x) == IF Falsy(x) THEN Undefined ELSE Str(Trim(x.v))

ResolveWebhookUrl(configUrl, env) ==
    LET url == OrElse(OptTrim(configUrl),
                 OrElse(OptTrim(Opt(env, "USAGE_WEBHOOK_URL")),
                   OrElse(OptTrim(Opt(env, "OPENCLAW_USAGE_WEBHOOK_URL")),
                          Str(DEFAULT_WEBHOOK_URL))))
    IN  OrElse(url, Undefined)

TransformUsageEvent(evt) ==
    [type |-> "model.usage",
     timestamp |-> evt.ts,
     sessionKey |-> Opt(evt, "sessionKey"),
     sessionId |-> Opt(evt, "sessionId"),
     channel |-> Opt(evt, "channel"),
     provider |-> Opt(evt, "provider"),
     model |-> Opt(evt, "model"),
     usage |-> Opt(evt, "usage"),
     context |-> Opt(evt, "context"),
     costUsd |-> Opt(evt, "costUsd"),
     durationMs |-> Opt(evt, "durationMs")]

\* The variables as createUsageWebhookService declares them.
ServiceCreated ==
    [unsubscribe |-> Null, flushTimer |-> Null, batch |-> <<>>,
     webhookUrl |-> Undefined, batchSize |-> 1, maxRetries |-> 3,
     loggerRef |-> Null]

\* A delivery at rest keeps only what sendWithRetry resolved with.
Settled(d) == IF d.phase = "done" THEN [phase |-> "done", result |-> d.result] ELSE d

\* flush drained nothing although events were queued.
FlushKeepsQueue(w, by) ==
    IF Len(w.service.batch) = 0 \/ FalsyString(w.service.webhookUrl)
          \/ w.service.loggerRef = Null
    THEN [w EXCEPT !.lastFlush = "skipped"]
    ELSE LET toSend == w.service.batch
             payload == IF Len(toSend) = 1 THEN toSend[1] ELSE [events |-> toSend]
         IN  [w EXCEPT !.flights =
                           Append(@, [toSend |-> toSend, payload |-> payload, by |-> by,
                                      d |-> Settled(SendWithRetry(w.service.maxRetries))]),
                       !.lastFlush = "sent"]

\* flush wrapping every batch, a single event too.
FlushAlwaysWraps(w, by) ==
    IF Len(w.service.batch) = 0 \/ FalsyString(w.service.webhookUrl)
          \/ w.service.loggerRef = Null
    THEN [w EXCEPT !.lastFlush = "skipped"]
    ELSE LET toSend == w.service.batch
             payload == [events |-> toSend]
         IN  [w EXCEPT !.service.batch = <<>>,
                       !.flights =
                           Append(@, [toSend |-> toSend, payload |-> payload, by |-> by,
                                      d |-> Settled(SendWithRetry(w.service.maxRetries))]),
                       !.lastFlush = "sent"]

\* const flush = async () => { ... }, up to its await.
Flush(w, by) ==
    IF Len(w.service.batch) = 0 \/ FalsyString(w.service.webhookUrl)
          \/ w.service.loggerRef = Null
    THEN [w EXCEPT !.lastFlush = "skipped"]
    ELSE LET toSend == w.service.batch
             payload == IF Len(toSend) = 1 THEN toSend[1] ELSE [events |-> toSend]
         IN  [w EXCEPT !.service.batch = <<>>,
                       !.flights =
                           Append(@, [toSend |-> toSend, payload |-> payload, by |-> by,
                                      d |-> Settled(SendWithRetry(w.service.maxRetries))]),
                       !.lastFlush = "sent"]

\* start(ctx)
StartService(w, cfg, env, hasOnDiagnosticEvent) ==
    LET url == ResolveWebhookUrl(Opt(cfg, "url"), env)
        s1 == [w.service EXCEPT !.webhookUrl = url]
        s2 == [s1 EXCEPT !.batchSize = Nullish(cfg, "batchSize", 1),
                         !.maxRetries = Nullish(cfg, "maxRetries", 3),
                         !.loggerRef = Ref("ctx.logger")]
        s3 == [s2 EXCEPT !.unsubscribe = Ref("unsubscribe"),
                         !.flushTimer = IF s2.batchSize > 1 THEN Ref("setInterval") ELSE @]
    IN  IF FalsyString(url)
        THEN [w EXCEPT !.service = s1, !.logged = Append(@, "info: disabled")]
        ELSE IF ~hasOnDiagnosticEvent
             THEN [w EXCEPT !.service = s2,
                            !.logged = @ \o <<"info: enabled", "warn: onDiagnosticEvent not available">>]
             ELSE [w EXCEPT !.service = s3, !.logged = Append(@, "info: enabled"),
                            !.subscriptions = @ + 1,
                            !.intervals = IF s2.batchSize > 1 THEN @ + 1 ELSE @]

\* The listener flushing only once two events are queued.
OnDiagnosticEventWaitsForTwo(w, evt) ==
    IF evt.type # "model.usage" THEN w
    ELSE LET w1 == [w EXCEPT !.service.batch = Append(@, TransformUsageEvent(evt)),
                             !.accepted = Append(@, TransformUsageEvent(evt))]
         IN  IF Len(w1.service.batch) >= 2 /\ Len(w1.service.batch) >= w1.service.batchSize
             THEN Flush(w1, "event")
             ELSE w1

\* The listener flushing only when the queue has outgrown batchSize.
OnDiagnosticEventFlushesLate(w, evt) ==
    IF evt.type # "model.usage" THEN w
    ELSE LET w1 == [w EXCEPT !.service.batch = Append(@, TransformUsageEvent(evt)),
                             !.accepted = Append(@, TransformUsageEvent(evt))]
         IN  IF w1.service.batchSize <= 1 \/ Len(w1.service.batch) > w1.service.batchSize
             THEN Flush(w1, "event")
             ELSE w1

\* The listener start registers with ctx.onDiagnosticEvent.
OnDiagnosticEvent(w, evt) ==
    IF evt.type # "model.usage" THEN w
    ELSE LET w1 == [w EXCEPT !.service.batch = Append(@, TransformUsageEvent(evt)),
                             !.accepted = Append(@, TransformUsageEvent(evt))]
         IN  IF w1.service.batchSize <= 1 \/ Len(w1.service.batch) >= w1.service.batchSize
             THEN Flush(w1, "event")
             ELSE w1

\* stop() leaving the subscription in place.
StopRestKeepsSubscription(w) ==
    [w EXCEPT !.service.flushTimer = Null,
              !.intervals = IF w.service.flushTimer # Null THEN @ - 1 ELSE @,
              !.service.loggerRef = Null,
              !.lifecycle = [phase |-> "stopped", awaiting |-> 0]]

\* stop(), after its await flush().
StopRest(w) ==
    [w EXCEPT !.service.flushTimer = Null,
              !.intervals = IF w.service.flushTimer # Null THEN @ - 1 ELSE @,
              !.service.unsubscribe = Null,
              !.subscriptions = IF w.service.unsubscribe # Null THEN @ - 1 ELSE @,
              !.service.loggerRef = Null,
              !.lifecycle = [phase |-> "stopped", awaiting |-> 0]]

\* The diagnostic-event registry calls every listener it holds, n of them
\* being listeners of the service.
RECURSIVE EmitDiagnosticEvent(_, _, _)
EmitDiagnosticEvent(w, evt, n) ==
    IF n = 0 THEN w ELSE EmitDiagnosticEvent(OnDiagnosticEvent(w, evt), evt, n - 1)

\* stop(): the call of flush and, when flush had nothing to await, the rest.
StopService(w) ==
    LET w1 == Flush(w, "stop")
    IN  IF w1.lastFlush = "sent" /\ w1.flights[Len(w1.flights)].d.phase # "done"
        THEN [w1 EXCEPT !.lifecycle = [phase |-> "stopping", awaiting |-> Len(w1.flights)]]
        ELSE StopRest(w1)

\* A delivery took a step; when it is the one stop awaits and it is over,
\* stop goes on in the same turn.
FlightStep(w, i, d) ==
    LET w1 == [w EXCEPT !.flights[i].d = Settled(d)]
    IN  IF d.phase = "done" /\ w.lifecycle.phase = "stopping" /\ w.lifecycle.awaiting = i
        THEN StopRest(w1)
        ELSE w1

(***************************************************************************)
(* The LLM key manager: the profile store in its file, and the handlers of *)
(* the four mutating routes from the point where the body has been parsed. *)
(* The request has the method of its route and passes checkAuth; the file  *)
(* system does not fail.                                                   *)
(***************************************************************************)
\* fs.existsSync(AUTH_PROFILES_PATH) is false.
NoFile == [missing |-> TRUE]

\* The members of Object.prototype among the identifiers below.
ObjectPrototype == {"constructor"}

\* obj[key] on an object JSON.parse built: an own property, or one inherited
\* from Object.prototype.
Get(obj, key) ==
    IF key \in DOMAIN obj THEN obj[key]
    ELSE IF key \in ObjectPrototype THEN Ref("Object.prototype." \o key)
    ELSE Undefined

\* delete obj[key], for every key in keys
Without(obj, keys) == [k \in DOMAIN obj \ keys |-> obj[k]]

\* obj[key] = value
Assign(obj, key, value) ==
    [k \in DOMAIN obj \cup {key} |-> IF k = key THEN value ELSE obj[k]]

\* { ...rec, ...(value ? { [key]: value } : {}) }, for a value that is an
\* object or undefined
Spread(rec, key, value) ==
    IF value = Undefined THEN rec
    ELSE [k \in DOMAIN rec \cup {key} |-> IF k = key THEN value ELSE rec[k]]

LoadAuthProfiles(file) ==
    IF file = NoFile
    THEN [version |-> 1, profiles |-> EmptyObj, order |-> Undefined,
          lastGood |-> Undefined, usageStats |-> Undefined]
    ELSE [version |-> Nullish(file, "version", 1),
          profiles |-> Nullish(file, "profiles", EmptyObj),
          order |-> Opt(file, "order"),
          lastGood |-> Opt(file, "lastGood"),
          usageStats |-> Opt(file, "usageStats")]

\* saveAuthProfiles: what JSON.stringify(payload) leaves in the file.
SaveAuthProfiles(store) ==
    Spread(Spread(Spread([version |-> store.version, profiles |-> store.profiles],
                         "order", store.order),
                  "lastGood", store.lastGood),
           "usageStats", store.usageStats)

\* !body || !body.f for one of the fields
MissingFields(body, fields) ==
    body = Null \/ \E f \in fields : f \notin DOMAIN body \/ body[f] = ""

\* What a handler leaves in the file and the status it answers with.
Answer(file, status) == [file |-> file, status |-> status]

\* { ...cred, ...(body.f ? { f: body.f } : {}) }
OptionalField(cred, body, f) ==
    IF f \in DOMAIN body /\ body[f] # "" THEN Assign(cred, f, body[f]) ELSE cred

\* POST /llm-keys/api-key
PostApiKey(file, body) ==
    IF MissingFields(body, {"profileId", "provider", "key"}) THEN Answer(file, 400)
    ELSE LET store == LoadAuthProfiles(file)
             cred == OptionalField([type |-> "api_key", provider |-> body.provider,
                                    key |-> body.key],
                                   body, "email")
         IN  Answer(SaveAuthProfiles(
                        [store EXCEPT !.profiles = Assign(@, body.profileId, cred)]),
                    200)

\* POST /llm-keys/token, for bodies without expires
PostToken(file, body) ==
    IF MissingFields(body, {"profileId", "provider", "token"}) THEN Answer(file, 400)
    ELSE LET store == LoadAuthProfiles(file)
             cred == OptionalField([type |-> "token", provider |-> body.provider,
                                    token |-> body.token],
                                   body, "email")
         IN  Answer(SaveAuthProfiles(
                        [store EXCEPT !.profiles = Assign(@, body.profileId, cred)]),
                    200)

\* list.filter((id) => id !== profileId)
FilterOut(list, profileId) == SelectSeq(list, LAMBDA id : id # profileId)

\* The clean-up of store.order in the DELETE handler.
CleanOrder(order, profileId) ==
    IF order = Undefined THEN Undefined
    ELSE LET filtered == [pr \in DOMAIN order |-> FilterOut(order[pr], profileId)]
             kept == Without(filtered, {pr \in DOMAIN order : Len(filtered[pr]) = 0})
         IN  IF DOMAIN kept = {} THEN Undefined ELSE kept

\* The clean-up of store.lastGood in the DELETE handler.
CleanLastGood(lastGood, profileId) ==
    IF lastGood = Undefined THEN Undefined
    ELSE LET kept == Without(lastGood, {pr \in DOMAIN lastGood : lastGood[pr] = profileId})
         IN  IF DOMAIN kept = {} THEN Undefined ELSE kept

\* The clean-up of store.usageStats in the DELETE handler.
CleanUsageStats(usageStats, profileId) ==
    IF usageStats = Undefined THEN Undefined
    ELSE LET kept == Without(usageStats, {profileId})
         IN  IF DOMAIN kept = {} THEN Undefined ELSE kept

\* DELETE /llm-keys/profile
DeleteProfile(file, body) ==
    IF MissingFields(body, {"profileId"}) THEN Answer(file, 400)
    ELSE LET store == LoadAuthProfiles(file)
             id == body.profileId
         IN  IF Get(store.profiles, id) = Undefined THEN Answer(file, 404)
             ELSE Answer(SaveAuthProfiles(
                             [store EXCEPT !.profiles = Without(@, {id}),
                                           !.order = CleanOrder(@, id),
                                           !.lastGood = CleanLastGood(@, id),
                                           !.usageStats = CleanUsageStats(@, id)]),
                         200)

\* body.order.map((entry) => String(entry).trim()).filter(Boolean)
Sanitized(order) ==
    SelectSeq([i \in 1..Len(order) |-> Trim(order[i])], LAMBDA entry : entry # "")

\* The loop that pushes every entry not yet included.
RECURSIVE Deduped(_, _)
Deduped(sanitized, deduped) ==
    IF sanitized = <<>> THEN deduped
    ELSE Deduped(Tail(sanitized),
                 IF \E i \in 1..Len(deduped) : deduped[i] = Head(sanitized)
                 THEN deduped
                 ELSE Append(deduped, Head(sanitized)))

\* PUT /llm-keys/order
PutOrder(file, body) ==
    IF body = Null \/ MissingFields(body, {"provider"}) \/ "order" \notin DOMAIN body
    THEN Answer(file, 400)
    ELSE LET store == LoadAuthProfiles(file)
             deduped == Deduped(Sanitized(body.order), <<>>)
             order == IF store.order = Undefined THEN EmptyObj ELSE store.order
             removed == Without(order, {body.provider})
         IN  Answer(SaveAuthProfiles(
                        [store EXCEPT !.order =
                             IF Len(deduped) = 0
                             THEN IF DOMAIN removed = {} THEN Undefined ELSE removed
                             ELSE Assign(order, body.provider, deduped)]),
                    200)

\* The handler of the route, resumed with the parsed body.
Handler(route, file, body) ==
    CASE route = "api-key" -> PostApiKey(file, body)
      [] route = "token" -> PostToken(file, body)
      [] route = "profile" -> DeleteProfile(file, body)
      [] route = "order" -> PutOrder(file, body)

(***************************************************************************)
(* The state machine.                                                      *)
(***************************************************************************)
KeyManagerIdle ==
    /\ authFile = NoFile
    /\ requests = <<>>
    /\ applied = <<>>

BridgeIdle ==
    /\ pc = [r \in Runs |-> "idle"]
    /\ stream = [r \in Runs |-> FALSE]
    /\ wroteRole = [r \in Runs |-> FALSE]
    /\ sawAssistantDelta = [r \in Runs |-> FALSE]
    /\ closed = [r \in Runs |-> FALSE]
    /\ streamResult = [r \in Runs |-> Null]
    /\ subscribed = [r \in Runs |-> FALSE]
    /\ closeHandler = [r \in Runs |-> "none"]
    /\ res = [r \in Runs |-> <<>>]
    /\ json = [r \in Runs |-> <<>>]
    /\ webhookCalls = [r \in Runs |-> <<>>]
    /\ emitted = [r \in Runs |-> <<>>]
    /\ feed = [r \in Runs |-> <<>>]
    /\ wasClosed = [r \in Runs |-> FALSE]
    /\ nPublished = 0
    /\ webhookSettled = [r \in Runs |-> <<>>]

UsageIdle ==
    /\ usageArg = Null
    /\ usageOut = Null

ServiceIdle ==
    /\ service = ServiceCreated
    /\ flights = <<>>
    /\ lastFlush = "none"
    /\ accepted = <<>>
    /\ lifecycle = [phase |-> "created", awaiting |-> 0]
    /\ logged = <<>>
    /\ nDiag = 0
    /\ startedWith = Null
    /\ subscriptions = 0
    /\ intervals = 0

Init ==
    /\ usageWebhookUrl \in WebhookUrls
    /\ BridgeIdle
    /\ delivery = NoDelivery
    /\ ServiceIdle
    /\ UsageIdle
    /\ KeyManagerIdle

\* handleOpenAiHttpRequest up to its first suspension, for an authorized
\* POST whose body was read; message is prompt.message.
HandleRequest(r, isStream, message) ==
    /\ pc[r] = "idle"
    /\ stream' = [stream EXCEPT ![r] = isStream]
    /\ IF message = ""
       THEN /\ pc' = [pc EXCEPT ![r] = "rejected"]
            /\ SetClosures([Closures EXCEPT ![r] =
                   SendJson(@, 400,
                            [error |-> [message |-> "Missing user message in messages.",
                                        type |-> "invalid_request_error"]])])
            /\ UNCHANGED closeHandler
       ELSE /\ pc' = [pc EXCEPT ![r] = "awaiting"]
            /\ IF isStream
               THEN /\ SetClosures([Closures EXCEPT ![r].subscribed = TRUE])
                    /\ closeHandler' = [closeHandler EXCEPT ![r] = "armed"]
               ELSE UNCHANGED <<wroteRole, sawAssistantDelta, closed, streamResult,
                                subscribed, closeHandler, res, json, webhookCalls,
                                emitted>>
    /\ UNCHANGED <<extensionVars, webhookSettled, usageWebhookUrl, feed, wasClosed, nPublished>>

\* The agent subsystem publishes an event: every registered listener runs.
Publish(evt) ==
    /\ nPublished < MaxEvents
    /\ evt.runId \in Runs => pc[evt.runId] \in {"awaiting", "resolved", "failed"}
    /\ nPublished' = nPublished + 1
    /\ feed' = Published(evt, Closures)
    /\ SetClosures(Dispatch(evt, Closures))
    /\ UNCHANGED <<extensionVars, webhookSettled, usageWebhookUrl, pc, stream, closeHandler, wasClosed>>

\* The client's connection closes.
ClientClose(r) ==
    /\ closeHandler[r] = "armed"
    /\ closeHandler' = [closeHandler EXCEPT ![r] = "fired"]
    /\ SetClosures([Closures EXCEPT ![r] = OnClose(@)])
    /\ UNCHANGED <<extensionVars, webhookSettled, usageWebhookUrl, pc, stream, feed, wasClosed, nPublished>>

\* agentCommand resolves with a result.
AgentResolve(r, result) ==
    /\ pc[r] = "awaiting"
    /\ pc' = [pc EXCEPT ![r] = "resolved"]
    /\ wasClosed' = [wasClosed EXCEPT ![r] = closed[r]]
    /\ IF stream[r]
       THEN SetClosures([Closures EXCEPT ![r] = StreamFinally(StreamTry(r, result, @))])
       ELSE SetClosures([Closures EXCEPT ![r] = NonStreamTry(r, result, @)])
    /\ UNCHANGED <<extensionVars, webhookSettled, usageWebhookUrl, stream, closeHandler, feed, nPublished>>

\* agentCommand rejects with an error.
AgentReject(r, err) ==
    /\ pc[r] = "awaiting"
    /\ pc' = [pc EXCEPT ![r] = "failed"]
    /\ wasClosed' = [wasClosed EXCEPT ![r] = closed[r]]
    /\ IF stream[r]
       THEN LET caught == [Closures EXCEPT ![r] = StreamCatch(r, err, @)]
                emits == ~closed[r]
                after == IF emits THEN Dispatch(LifecycleError(r), caught) ELSE caught
            IN  /\ SetClosures([after EXCEPT ![r] = StreamFinally(@)])
                /\ feed' = IF emits THEN Published(LifecycleError(r), caught) ELSE feed
       ELSE /\ SetClosures([Closures EXCEPT ![r] = NonStreamCatch(err, @)])
            /\ UNCHANGED feed
    /\ UNCHANGED <<extensionVars, webhookSettled, usageWebhookUrl, stream, closeHandler, nPublished>>

\* The fetch of a sendUsageWebhook call ends: a 2xx response, another
\* response (logged), or an error (logged).  Nothing awaits it.
WebhookOutcomes == {"ok", "not ok", "error"}

WebhookSettles(r, outcome) ==
    /\ Len(webhookSettled[r]) < Len(webhookCalls[r])
    /\ webhookSettled' = [webhookSettled EXCEPT ![r] = Append(@, outcome)]
    /\ UNCHANGED <<extensionVars, usageWebhookUrl, pc, stream, wroteRole, sawAssistantDelta,
                   closed, streamResult, subscribed, closeHandler, res, json, webhookCalls,
                   emitted, feed, wasClosed, nPublished>>

Next ==
    \/ \E r \in SoloRuns, isStream \in BOOLEAN, message \in {"", "hi"} :
           HandleRequest(r, isStream, message)
    \/ \E evt \in AgentEvents : Publish(evt)
    \/ \E r \in Runs : ClientClose(r)
    \/ \E r \in Runs, result \in AgentResults : AgentResolve(r, result)
    \/ \E r \in Runs, err \in AgentErrors : AgentReject(r, err)
    \/ \E r \in Runs, outcome \in WebhookOutcomes : WebhookSettles(r, outcome)

Spec == Init /\ [][Next]_vars

(***************************************************************************)
(* Two streaming requests at once on the one event feed, with one delta    *)
(* for each, the delta of a run of neither, one result and one error.      *)
(***************************************************************************)
DuoEvents ==
    {[runId |-> r, stream |-> "assistant", data |-> [delta |-> Str("Hello")]] : r \in Runs}
    \cup {[runId |-> OtherRunId, stream |-> "assistant", data |-> [delta |-> Str("Hello")]]}

InitDuo ==
    /\ usageWebhookUrl = Undefined
    /\ BridgeIdle
    /\ delivery = NoDelivery
    /\ ServiceIdle
    /\ UsageIdle
    /\ KeyManagerIdle

\* agentCommand of run r settles.
AgentSettles(r) ==
    \/ AgentResolve(r, ResultDone)
    \/ \E err \in AgentErrors : AgentReject(r, err)

NextDuo ==
    \/ \E r \in Runs : HandleRequest(r, TRUE, "hi")
    \/ \E evt \in DuoEvents : Publish(evt)
    \/ \E r \in Runs : ClientClose(r)
    \/ \E r \in Runs : AgentSettles(r)

SpecDuo == InitDuo /\ [][NextDuo]_vars

\* Every agent invocation eventually resolves or rejects.
SpecDuoFair == SpecDuo /\ \A r \in Runs : WF_vars(AgentSettles(r))

(***************************************************************************)
(* One delivery by sendWithRetry, for every maxRetries up to the bound.    *)
(***************************************************************************)
MaxRetriesBound == 8

InitRetry ==
    /\ usageWebhookUrl = Undefined
    /\ BridgeIdle
    /\ delivery = NoDelivery
    /\ ServiceIdle
    /\ UsageIdle
    /\ KeyManagerIdle

CallSendWithRetry(maxRetries) ==
    /\ delivery.phase = "idle"
    /\ delivery' = SendWithRetry(maxRetries)
    /\ UNCHANGED <<bridgeVars, serviceVars>>

FetchSettles(o) ==
    /\ delivery.phase = "fetching"
    /\ delivery' = AfterFetch(delivery, o)
    /\ UNCHANGED <<bridgeVars, serviceVars>>

BackoffElapses ==
    /\ delivery.phase = "sleeping"
    /\ delivery' = AfterBackoff(delivery)
    /\ UNCHANGED <<bridgeVars, serviceVars>>

NextRetry ==
    \/ \E maxRetries \in 0..MaxRetriesBound : CallSendWithRetry(maxRetries)
    \/ \E o \in FetchOutcomes : FetchSettles(o)
    \/ BackoffElapses

SpecRetry == InitRetry /\ [][NextRetry]_vars

(***************************************************************************)
(* The usage-webhook service: start, the diagnostic events and the timer   *)
(* ticks that follow, the deliveries flush starts, and stop.               *)
(***************************************************************************)
MaxDiagnosticEvents == 3

\* ctx.config.usageWebhook
Configs ==
    {Undefined,
     [batchSize |-> 2, maxRetries |-> 0],
     [url |-> Str(" https://hooks.example/usage "), batchSize |-> 3, maxRetries |-> 1],
     [url |-> Str("  "), batchSize |-> 0, maxRetries |-> 0]}

\* process.env
Envs ==
    {[HOME |-> Str("/root")],
     [HOME |-> Str("/root"), USAGE_WEBHOOK_URL |-> Str("https://env.example/usage")]}

\* The diagnostic event number n.
DiagnosticEvents(n) ==
    {[type |-> "model.usage", ts |-> n, provider |-> "anthropic", model |-> "claude",
      usage |-> [input |-> 100 * n, output |-> 50]],
     [type |-> "message.processed", ts |-> n]}

\* What the webhook answers to a delivery of the service.
ServiceOutcomes == {Response(200), Response(404), Response(500)}

World == [service |-> service, flights |-> flights, lastFlush |-> lastFlush,
          accepted |-> accepted, lifecycle |-> lifecycle, logged |-> logged,
          startedWith |-> startedWith, subscriptions |-> subscriptions,
          intervals |-> intervals]

SetWorld(w) ==
    /\ service' = w.service
    /\ flights' = w.flights
    /\ lastFlush' = w.lastFlush
    /\ accepted' = w.accepted
    /\ lifecycle' = w.lifecycle
    /\ logged' = w.logged
    /\ startedWith' = w.startedWith
    /\ subscriptions' = w.subscriptions
    /\ intervals' = w.intervals

InitService ==
    /\ usageWebhookUrl = Undefined
    /\ BridgeIdle
    /\ delivery = NoDelivery
    /\ ServiceIdle
    /\ UsageIdle
    /\ KeyManagerIdle

Start(cfg, env, hasOnDiagnosticEvent) ==
    /\ lifecycle.phase = "created"
    /\ SetWorld([StartService(World, cfg, env, hasOnDiagnosticEvent)
                   EXCEPT !.lifecycle = [phase |-> "started", awaiting |-> 0],
                          !.startedWith = [config |-> cfg, env |-> env,
                                           onDiagnosticEvent |-> hasOnDiagnosticEvent]])
    /\ UNCHANGED <<bridgeVars, delivery, nDiag>>

DiagnosticEvent(evt) ==
    /\ subscriptions > 0
    /\ nDiag < MaxDiagnosticEvents
    /\ nDiag' = nDiag + 1
    /\ SetWorld(EmitDiagnosticEvent(World, evt, subscriptions))
    /\ UNCHANGED <<bridgeVars, delivery>>

TimerTick ==
    /\ intervals > 0
    /\ SetWorld(Flush(World, "timer"))
    /\ UNCHANGED <<bridgeVars, delivery, nDiag>>

Stop ==
    /\ lifecycle.phase \in {"created", "started"}
    /\ SetWorld(StopService(World))
    /\ UNCHANGED <<bridgeVars, delivery, nDiag>>

FlightFetchSettles(i, o) ==
    /\ flights[i].d.phase = "fetching"
    /\ SetWorld(FlightStep(World, i, AfterFetch(flights[i].d, o)))
    /\ UNCHANGED <<bridgeVars, delivery, nDiag>>

FlightBackoffElapses(i) ==
    /\ flights[i].d.phase = "sleeping"
    /\ SetWorld(FlightStep(World, i, AfterBackoff(flights[i].d)))
    /\ UNCHANGED <<bridgeVars, delivery, nDiag>>

NextService ==
    \/ \E cfg \in Configs, env \in Envs, hasOnDiagnosticEvent \in BOOLEAN :
           Start(cfg, env, hasOnDiagnosticEvent)
    \/ \E evt \in DiagnosticEvents(nDiag + 1) : DiagnosticEvent(evt)
    \/ TimerTick
    \/ Stop
    \/ \E i \in 1..Len(flights), o \in ServiceOutcomes : FlightFetchSettles(i, o)
    \/ \E i \in 1..Len(flights) : FlightBackoffElapses(i)

SpecService == InitService /\ [][NextService]_vars

\* Every fetch settles (at the latest the timeoutMs timer aborts it) and
\* every backoff timer fires: a delivery in flight goes on.
FlightProgress ==
    \/ \E i \in 1..Len(flights), o \in ServiceOutcomes : FlightFetchSettles(i, o)
    \/ \E i \in 1..Len(flights) : FlightBackoffElapses(i)

SpecServiceFair == SpecService /\ WF_vars(FlightProgress)

\* And the interval timer, as long as it is set, fires again.
SpecServiceLive == SpecService /\ WF_vars(FlightProgress) /\ WF_vars(TimerTick)

(***************************************************************************)
(* One service instance whose start and stop are called again: start on a  *)
(* service that is started or was stopped, stop after each of them.  No    *)
(* call arrives while stop awaits its flush.                               *)
(***************************************************************************)
MaxStarts == 2

RestartConfigs == {[maxRetries |-> 0], [batchSize |-> 2, maxRetries |-> 0]}

RestartEnv == [HOME |-> Str("/root")]

RestartOutcomes == {Response(200), Response(500)}

\* The calls of start so far: each wrote one info line to its logger.
StartCalls ==
    Len(SelectSeq(logged, LAMBDA line : line \in {"info: enabled", "info: disabled"}))

\* start(ctx) on a service that start was called on before.
StartAgain(cfg, env, hasOnDiagnosticEvent) ==
    /\ lifecycle.phase \in {"started", "stopped"}
    /\ StartCalls < MaxStarts
    /\ SetWorld([StartService(World, cfg, env, hasOnDiagnosticEvent)
                   EXCEPT !.lifecycle = [phase |-> "started", awaiting |-> 0],
                          !.startedWith = [config |-> cfg, env |-> env,
                                           onDiagnosticEvent |-> hasOnDiagnosticEvent]])
    /\ UNCHANGED <<bridgeVars, delivery, nDiag>>

NextRestart ==
    \/ \E cfg \in RestartConfigs : Start(cfg, RestartEnv, TRUE)
    \/ \E cfg \in RestartConfigs : StartAgain(cfg, RestartEnv, TRUE)
    \/ \E evt \in DiagnosticEvents(nDiag + 1) : DiagnosticEvent(evt)
    \/ TimerTick
    \/ Stop
    \/ \E i \in 1..Len(flights), o \in RestartOutcomes : FlightFetchSettles(i, o)

SpecRestart == InitService /\ [][NextRestart]_vars

(***************************************************************************)
(* The key manager with mutating requests in flight at once: each handler  *)
(* is suspended once, awaiting parseJsonBody, and the bodies may arrive in *)
(* any order.                                                              *)
(***************************************************************************)
MaxRequests == 3

\* The file some earlier run left behind.
SeedFile ==
    [version |-> 1,
     profiles |-> [work |-> [type |-> "api_key", provider |-> "openai", key |-> "sk-0"]],
     order |-> [openai |-> <<"work">>],
     lastGood |-> [openai |-> "work"],
     usageStats |-> [work |-> [lastUsed |-> 1]]]

KeyRequests ==
    { [route |-> "api-key",
       body |-> [profileId |-> "work", provider |-> "openai", key |-> "sk-1"]],
      [route |-> "api-key",
       body |-> [profileId |-> "home", provider |-> "openai", key |-> "sk-2",
                 email |-> "me@example.com"]],
      [route |-> "api-key", body |-> [profileId |-> "work", provider |-> "openai"]],
      [route |-> "token",
       body |-> [profileId |-> "work", provider |-> "anthropic", token |-> "tok-1"]],
      [route |-> "profile", body |-> [profileId |-> "work"]],
      [route |-> "order",
       body |-> [provider |-> "openai", order |-> <<"home", "  ", "work", "home">>]],
      [route |-> "order", body |-> [provider |-> "openai", order |-> <<>>]] }

InitKeys ==
    /\ usageWebhookUrl = Undefined
    /\ BridgeIdle
    /\ delivery = NoDelivery
    /\ ServiceIdle
    /\ UsageIdle
    /\ authFile = SeedFile
    /\ requests = <<>>
    /\ applied = <<>>

\* A handler runs up to its await of parseJsonBody.
Receive(q) ==
    /\ Len(requests) < MaxRequests
    /\ requests' = Append(requests, [route |-> q.route, body |-> q.body,
                                      pc |-> "parsing", status |-> 0])
    /\ UNCHANGED <<handlerVars, delivery, serviceVars, usageVars, authFile, applied>>

\* The handler working on the store as it was when the process started.
FileReadAtStartup(i) == SeedFile

\* The file as loadAuthProfiles finds it when the handler of request i runs on.
FileRead(i) == authFile

\* parseJsonBody resolves: the handler runs to its end.
BodyParsed(i) ==
    /\ requests[i].pc = "parsing"
    /\ LET answer == Handler(requests[i].route, FileRead(i), requests[i].body)
       IN  /\ authFile' = answer.file
           /\ requests' = [requests EXCEPT ![i].pc = "done", ![i].status = answer.status]
           /\ applied' = IF answer.status = 200 THEN Append(applied, i) ELSE applied
    /\ UNCHANGED <<handlerVars, delivery, serviceVars, usageVars>>

NextKeys ==
    \/ \E q \in KeyRequests : Receive(q)
    \/ \E i \in 1..Len(requests) : BodyParsed(i)

SpecKeys == InitKeys /\ [][NextKeys]_vars

(***************************************************************************)
(* One DELETE /llm-keys/profile on every shape of store: with and without  *)
(* the optional maps, with empty maps and lists, with references to        *)
(* profiles that exist and ones that do not.                               *)
(***************************************************************************)
StoredCredentials ==
    [work |-> [type |-> "api_key", provider |-> "openai", key |-> "sk-0"],
     home |-> [type |-> "token", provider |-> "anthropic", token |-> "tok-0"]]

StoredProfiles == {[id \in ids |-> StoredCredentials[id]] : ids \in SUBSET {"work", "home"}}

StoredOrders ==
    {Undefined, EmptyObj,
     [openai |-> <<>>],
     [openai |-> <<"work">>],
     [openai |-> <<"home">>],
     [openai |-> <<"work", "home">>, anthropic |-> <<"work">>],
     [openai |-> <<"constructor", "work">>]}

StoredLastGoods ==
    {Undefined, EmptyObj,
     [openai |-> "work"],
     [openai |-> "work", anthropic |-> "home"]}

StoredUsageStats ==
    {Undefined, EmptyObj,
     [work |-> [lastUsed |-> 1]],
     [work |-> [lastUsed |-> 1], home |-> [errorCount |-> 2]]}

\* The files a saveAuthProfiles or an editor may have left.
StoredFiles ==
    {SaveAuthProfiles([version |-> 1, profiles |-> profiles, order |-> order,
                       lastGood |-> lastGood, usageStats |-> usageStats]) :
         profiles \in StoredProfiles, order \in StoredOrders,
         lastGood \in StoredLastGoods, usageStats \in StoredUsageStats}

DeleteRequests ==
    {[route |-> "profile", body |-> [profileId |-> id]] : id \in {"work", "home", "constructor"}}
    \cup {[route |-> "profile", body |-> Null]}

InitDelete ==
    /\ usageWebhookUrl = Undefined
    /\ BridgeIdle
    /\ delivery = NoDelivery
    /\ ServiceIdle
    /\ UsageIdle
    /\ authFile \in StoredFiles
    /\ requests = <<>>
    /\ applied = <<>>

NextDelete ==
    \/ \E q \in DeleteRequests : requests = <<>> /\ Receive(q)
    \/ \E i \in 1..Len(requests) : BodyParsed(i)

SpecDelete == InitDelete /\ [][NextDelete]_vars

(***************************************************************************)
(* extractUsageFromResult on every agent result: none, one without a usage *)
(* record, one with any subset of the usage fields present.                *)
(***************************************************************************)
MaxTokenUnits == 4

\* Token counts, in steps of 50.
Tokens == {50 * k : k \in 0..MaxTokenUnits}

UsageFields == {"input", "output", "cacheRead", "cacheWrite", "total"}

UsageRecords == UNION {[present -> Tokens] : present \in SUBSET UsageFields}

\* The results that carry no usage record.
NoUsageArgs ==
    {Null,
     [payloads |-> <<>>],
     [meta |-> [durationMs |-> 5]],
     [meta |-> [agentMeta |-> [model |-> "claude"]]],
     [meta |-> [agentMeta |-> [usage |-> Null]]]}

UsageArgs == NoUsageArgs \cup {[meta |-> Meta(usage)] : usage \in UsageRecords}

InitUsage ==
    /\ usageWebhookUrl = Undefined
    /\ BridgeIdle
    /\ delivery = NoDelivery
    /\ ServiceIdle
    /\ KeyManagerIdle
    /\ usageArg \in UsageArgs
    /\ usageOut = Null

ExtractUsage ==
    /\ usageOut = Null
    /\ usageOut' = ExtractUsageFromResult(usageArg)
    /\ UNCHANGED <<handlerVars, delivery, serviceVars, keyVars, usageArg>>

NextUsage == ExtractUsage

SpecUsage == InitUsage /\ [][NextUsage]_vars

(***************************************************************************)
(* One request, streaming or not, answered with any shape of result, on a  *)
(* feed of assistant events with and without text.                         *)
(***************************************************************************)
\* Payloads that all lack a text.
ResultEmptyTexts == [payloads |-> <<[text |-> ""], EmptyObj>>]

\* A result without the payloads property.
ResultNoPayloadsKey == [meta |-> Meta(UsageNoTotal)]

ContentResults == AgentResults \cup {ResultEmptyTexts, ResultNoPayloadsKey}

\* The data of assistant events from which the listener reads no content.
EmptyData ==
    { Undefined,
      EmptyObj,
      [delta |-> Str("")],
      [text |-> Str("")],
      [delta |-> Num(42)],
      [delta |-> Num(42), text |-> Str("")] }

ContentEvents ==
    { [runId |-> r, stream |-> "assistant", data |-> d] :
          r \in SoloRuns, d \in EmptyData \cup {[delta |-> Str("Hello")]} }

InitContent ==
    /\ usageWebhookUrl = Undefined
    /\ BridgeIdle
    /\ delivery = NoDelivery
    /\ ServiceIdle
    /\ UsageIdle
    /\ KeyManagerIdle

NextContent ==
    \/ \E r \in SoloRuns, isStream \in BOOLEAN : HandleRequest(r, isStream, "hi")
    \/ \E evt \in ContentEvents : Publish(evt)
    \/ \E r \in SoloRuns : ClientClose(r)
    \/ \E r \in SoloRuns, result \in ContentResults : AgentResolve(r, result)

SpecContent == InitContent /\ [][NextContent]_vars

(***************************************************************************)
(* What the properties read off a response stream.                         *)
(***************************************************************************)
Choice(e) == e.data.choices[1]

IsChunk(e) == e.op = "write"

IsRole(e) == IsChunk(e) /\ "role" \in DOMAIN Choice(e).delta

IsContent(e) == IsChunk(e) /\ "content" \in DOMAIN Choice(e).delta

FinishReason(e) == Opt(Choice(e), "finish_reason")

IsStop(e) == IsChunk(e) /\ FinishReason(e) = Str("stop")

HasUsage(e) == IsChunk(e) /\ "usage" \in DOMAIN e.data

IsDone(e) == e.op = "done"

IsEnd(e) == e.op = "end"

IsDeltaChunk(e) == IsContent(e) /\ e.by = "listener"

IsSynthesized(e) == IsContent(e) /\ e.by = "task" /\ FinishReason(e) = Null

Count(log, P(_)) == Len(SelectSeq(log, P))

Last(log, k) == log[Len(log) - k]

\* A streaming run whose agent command settled before any disconnect.
Finalized(r) == stream[r] /\ pc[r] \in {"resolved", "failed"} /\ ~wasClosed[r]

\* A streaming run whose client disconnected before its agent command settled.
Abandoned(r) == stream[r] /\ pc[r] \in {"resolved", "failed"} /\ wasClosed[r]

\* The text of an assistant event, as the protocol defines it: its delta,
\* or its text when it has no delta string.
DeltaText(evt) ==
    IF "delta" \in DOMAIN evt.data /\ evt.data.delta.t = "string" THEN evt.data.delta.v
    ELSE IF "text" \in DOMAIN evt.data /\ evt.data.text.t = "string" THEN evt.data.text.v
    ELSE ""

IsLiveDelta(f) == f.live /\ f.evt.stream = "assistant" /\ DeltaText(f.evt) # ""

\* The texts of the deltas a run received while subscribed, in arrival order.
ObservedDeltas(r) ==
    LET live == SelectSeq(feed[r], IsLiveDelta)
    IN  [i \in 1..Len(live) |-> DeltaText(live[i].evt)]

\* The texts of the content chunks the listener wrote, in stream order.
StreamedTexts(r) ==
    LET chunks == SelectSeq(res[r], IsDeltaChunk)
    IN  [i \in 1..Len(chunks) |-> Choice(chunks[i]).delta.content]

\* C1: in every streaming run the role-announcement chunk is written at most
\* once, no chunk whose delta carries content is written before it, and every
\* content chunk with finish_reason null has the role chunk before it.
RoleChunkOnceAndFirst ==
    \A r \in Runs :
        /\ Count(res[r], IsRole) <= 1
        /\ \A i, j \in 1..Len(res[r]) :
               IsContent(res[r][i]) /\ IsRole(res[r][j]) => j < i
        /\ \A i \in 1..Len(res[r]) :
               IsContent(res[r][i]) /\ FinishReason(res[r][i]) = Null
                   => \E j \in 1..(i - 1) : IsRole(res[r][j])

\* Two deltas were streamed after the role chunk, then the agent failed.
RoleThenDeltasThenFailure ==
    \E r \in Runs :
        /\ pc[r] = "failed"
        /\ Count(res[r], IsRole) = 1
        /\ Count(res[r], IsDeltaChunk) = 2
        /\ Count(res[r], IsStop) = 1

\* C2: once the client has disconnected, no step writes anything to the
\* response: no chunk, no [DONE] sentinel, no end of the stream.
NoWriteAfterDisconnect ==
    [][\A r \in Runs : closeHandler[r] = "fired" => res'[r] = res[r]]_vars

\* The client left a run in mid-stream; afterwards an event with text was
\* published for the run and the agent command resolved.
DisconnectedThenResolved ==
    \E r \in Runs :
        /\ closeHandler[r] = "fired"
        /\ pc[r] = "resolved"
        /\ wasClosed[r]
        /\ Count(res[r], IsDeltaChunk) >= 1
        /\ \E i \in 1..Len(feed[r]) : ~feed[r][i].live /\ DeltaText(feed[r][i].evt) # ""

\* C3: a streaming run not closed when its agent command settles has written
\* exactly one chunk with finish_reason "stop", then the [DONE] sentinel once,
\* then ended the response once, and nothing after; a run closed by the
\* client first, or still awaiting its agent, has written none of them.
TerminalPairExactlyOnce ==
    \A r \in Runs :
        /\ Finalized(r) =>
               /\ Count(res[r], IsStop) = 1
               /\ Count(res[r], IsDone) = 1
               /\ Count(res[r], IsEnd) = 1
               /\ Len(res[r]) >= 3
               /\ IsStop(Last(res[r], 2))
               /\ IsDone(Last(res[r], 1))
               /\ IsEnd(Last(res[r], 0))
        /\ ~Finalized(r) =>
               /\ Count(res[r], IsStop) = 0
               /\ Count(res[r], IsDone) = 0
               /\ Count(res[r], IsEnd) = 0

\* A run was finalized by the failure of its agent command after a delta; its
\* client disconnected only afterwards.
FinalizedThenDisconnected ==
    \E r \in Runs :
        /\ Finalized(r)
        /\ pc[r] = "failed"
        /\ closeHandler[r] = "fired"
        /\ Count(res[r], IsDeltaChunk) >= 1
        /\ Count(res[r], IsDone) = 1

\* C4: the content chunks written for the deltas of a run are, one for one
\* and in arrival order, the texts of the assistant deltas published while
\* the run was subscribed, each with finish_reason null; the deltas "Hello",
\* " world" and then completion give role, "Hello", " world", final(usage),
\* [DONE].
DeltasStreamedInOrder ==
    \A r \in Runs :
        /\ StreamedTexts(r) = ObservedDeltas(r)
        /\ \A i \in 1..Len(res[r]) :
               IsDeltaChunk(res[r][i]) => FinishReason(res[r][i]) = Null
        /\ (ObservedDeltas(r) = <<"Hello", " world">> /\ Finalized(r) /\ pc[r] = "resolved")
               => /\ Len(res[r]) = 6
                  /\ res[r][1].data = RoleChunk(r)
                  /\ res[r][2].data = ContentChunk(r, "Hello", Null)
                  /\ res[r][3].data = ContentChunk(r, " world", Null)
                  /\ IsStop(res[r][4]) /\ HasUsage(res[r][4])
                  /\ IsDone(res[r][5])
                  /\ IsEnd(res[r][6])

\* The deltas "Hello" and " world" arrived in this order, among an event
\* without text, and the agent command then resolved.
HelloWorldCompleted ==
    \E r \in Runs :
        /\ ObservedDeltas(r) = <<"Hello", " world">>
        /\ Len(feed[r]) = 3
        /\ Finalized(r)
        /\ pc[r] = "resolved"

\* C5: when the agent command of a streaming run succeeds while the run is
\* not closed, the run has written exactly one synthesized content chunk,
\* after the role chunk and before the terminal chunk, if it observed no
\* delta, and no synthesized chunk if it observed one; the payload text
\* "Done." gives role, "Done.", final(usage), [DONE].
SynthesisIffNoDelta ==
    \A r \in Runs :
        (Finalized(r) /\ pc[r] = "resolved") =>
            IF ObservedDeltas(r) = <<>>
            THEN /\ Count(res[r], IsSynthesized) = 1
                 /\ Len(res[r]) = 5
                 /\ IsRole(res[r][1])
                 /\ IsSynthesized(res[r][2])
                 /\ IsStop(res[r][3]) /\ ~IsContent(res[r][3])
                 /\ IsDone(res[r][4])
                 /\ (streamResult[r] = ResultDone
                         => Choice(res[r][2]).delta.content = "Done.")
                 /\ (streamResult[r] \in {Null, ResultNoPayloads}
                         => Choice(res[r][2]).delta.content = "No response from OpenClaw.")
            ELSE Count(res[r], IsSynthesized) = 0

\* A run that received only events without text resolved with the payload
\* text "Done.".
SynthesizedDone ==
    \E r \in Runs :
        /\ Finalized(r)
        /\ pc[r] = "resolved"
        /\ Len(feed[r]) >= 1
        /\ ObservedDeltas(r) = <<>>
        /\ Count(res[r], IsSynthesized) = 1
        /\ streamResult[r] = ResultDone

IsErrorChunk(e) == IsContent(e) /\ IsStop(e)

\* C6: in a streaming run finalized by success, the last chunk before the
\* [DONE] sentinel has an empty delta, finish_reason "stop" and the usage
\* extracted from the agent's result ({100, cacheRead 50, 50, total 200}
\* gives {150, 50, 200}); no earlier chunk carries usage.
FinalChunkCarriesUsage ==
    \A r \in Runs :
        (Finalized(r) /\ pc[r] = "resolved") =>
            LET n == Len(res[r])
                final == res[r][n - 2]
            IN  /\ n >= 3
                /\ IsDone(res[r][n - 1])
                /\ IsStop(final)
                /\ Choice(final).delta = EmptyObj
                /\ HasUsage(final)
                /\ final.data.usage = ExtractUsageFromResult(streamResult[r])
                /\ (streamResult[r] = ResultMixed =>
                        final.data.usage = [prompt_tokens |-> 150, completion_tokens |-> 50,
                                            total_tokens |-> 200])
                /\ (streamResult[r] = ResultDone =>
                        final.data.usage = [prompt_tokens |-> 100, completion_tokens |-> 50,
                                            total_tokens |-> 150])
                /\ (streamResult[r] \in {Null, ResultNoPayloads} =>
                        final.data.usage = [prompt_tokens |-> 0, completion_tokens |-> 0,
                                            total_tokens |-> 0])
                /\ \A i \in 1..(n - 3) : ~HasUsage(res[r][i])

\* A run that streamed two deltas was finalized with a result that has a
\* usage record.
FinalizedWithUsage ==
    \E r \in Runs :
        /\ Finalized(r)
        /\ streamResult[r] = ResultMixed
        /\ Count(res[r], IsDeltaChunk) = 2
        /\ Count(res[r], HasUsage) = 1

\* C7: when the agent command of a streaming run fails while the run is not
\* closed, the run has written exactly one content chunk with the error text
\* and finish_reason "stop", has emitted one lifecycle error event for its
\* run identifier, has written no chunk with usage, and its stream ends with
\* the [DONE] sentinel; no other run emits an event.
FailureEndsWithErrorChunk ==
    \A r \in Runs :
        IF Finalized(r) /\ pc[r] = "failed"
        THEN /\ Count(res[r], IsErrorChunk) = 1
             /\ Len(res[r]) >= 3
             /\ \E err \in AgentErrors :
                    Last(res[r], 2).data = ContentChunk(r, "Error: " \o err, Str("stop"))
             /\ emitted[r] = <<[runId |-> r, stream |-> "lifecycle",
                                data |-> [phase |-> "error"]]>>
             /\ Count(res[r], HasUsage) = 0
             /\ IsDone(Last(res[r], 1))
             /\ IsEnd(Last(res[r], 0))
        ELSE /\ emitted[r] = <<>>
             /\ Count(res[r], IsErrorChunk) = 0

\* The agent command of a run failed after the run had streamed a delta.
FailedAfterDelta ==
    \E r \in Runs :
        /\ Finalized(r)
        /\ pc[r] = "failed"
        /\ Count(res[r], IsDeltaChunk) >= 1
        /\ Count(res[r], IsErrorChunk) = 1
        /\ Len(emitted[r]) = 1

\* C8: the step of a client disconnect sets closed and removes the event
\* subscription together and leaves the agent command in flight; a started
\* streaming run is closed exactly when it is unsubscribed; an event
\* published for a run that is not subscribed changes none of its session
\* flags, and no step writes to the response of an unsubscribed run.
DisconnectTearsDownSubscription ==
    [][\A r \in Runs :
          /\ (closeHandler[r] = "armed" /\ closeHandler'[r] = "fired")
                 => (closed'[r] /\ ~subscribed'[r] /\ pc'[r] = pc[r])
          /\ closeHandler'[r] # "none" => (closed'[r] <=> ~subscribed'[r])
          /\ (~subscribed[r] /\ feed'[r] # feed[r])
                 => /\ wroteRole'[r] = wroteRole[r]
                    /\ sawAssistantDelta'[r] = sawAssistantDelta[r]
                    /\ closed'[r] = closed[r]
                    /\ streamResult'[r] = streamResult[r]
          /\ ~subscribed[r] => res'[r] = res[r]]_vars

\* A client disconnected while the agent command was in flight; an event
\* with text was then published for the run, and the command still ran to
\* its resolution.
EventAfterTeardown ==
    \E r \in Runs :
        /\ closeHandler[r] = "fired"
        /\ wasClosed[r]
        /\ pc[r] = "resolved"
        /\ Len(feed[r]) >= 2
        /\ feed[r][1].live
        /\ ~feed[r][Len(feed[r])].live
        /\ DeltaText(feed[r][Len(feed[r])].evt) # ""

\* C9: every run, streaming or not, whose agent command resolved while a
\* webhook URL is configured has handed exactly one payload to the webhook,
\* and no run more than one.
OneWebhookPerSuccessfulRun ==
    \A r \in Runs :
        /\ Len(webhookCalls[r]) <= 1
        /\ (pc[r] = "resolved" /\ usageWebhookUrl # Undefined)
               => Len(webhookCalls[r]) = 1

\* C10: a run whose agent command failed has handed no payload to the
\* webhook: not the non-streaming run, which answers 500, and not the
\* streaming run, which writes the error chunk.
NoWebhookOnFailure ==
    \A r \in Runs :
        pc[r] = "failed" =>
            /\ webhookCalls[r] = <<>>
            /\ ~stream[r] => (Len(json[r]) = 1 /\ json[r][1].status = 500)
            /\ Finalized(r) => Count(res[r], IsErrorChunk) = 1

\* With a webhook URL configured, the agent command of a streaming run
\* failed while the run was open.
FailedWithWebhookConfigured ==
    \E r \in Runs :
        /\ usageWebhookUrl # Undefined
        /\ Finalized(r)
        /\ pc[r] = "failed"
        /\ Count(res[r], IsErrorChunk) = 1

(***************************************************************************)
(* C11: In a successful streaming run with a webhook configured, the       *)
(* hand-off to the webhook comes right after the final chunk carrying the  *)
(* usage is written; the [DONE] sentinel and the end of the response       *)
(* follow it in the same turn, whatever becomes of the webhook call (a 2xx *)
(* response, another response, an error, or no answer at all), and the     *)
(* settling of the webhook call writes nothing and closes nothing.         *)
(***************************************************************************)
HandOffAfterUsageChunk ==
    \A r \in Runs :
        (stream[r] /\ Len(webhookCalls[r]) > 0) =>
            LET at == webhookCalls[r][1].after.res
            IN  /\ at >= 1
                /\ HasUsage(res[r][at])
                /\ Len(res[r]) = at + 2
                /\ IsDone(res[r][at + 1])
                /\ IsEnd(res[r][at + 2])
                /\ closed[r]
                /\ ~subscribed[r]

SettlingWritesNothing ==
    webhookSettled' # webhookSettled =>
        /\ res' = res
        /\ json' = json
        /\ closed' = closed
        /\ webhookCalls' = webhookCalls

WebhookOffCriticalPath ==
    []HandOffAfterUsageChunk /\ [][SettlingWritesNothing]_vars

\* A streaming run ended its response while the webhook call was still
\* unanswered, and the call then failed.
StreamEndedThenWebhookFailed ==
    \E r \in Runs :
        /\ Finalized(r)
        /\ pc[r] = "resolved"
        /\ Len(webhookCalls[r]) = 1
        /\ webhookSettled[r] = <<"error">>
        /\ IsEnd(Last(res[r], 0))

(***************************************************************************)
(* sendWithRetry: what the claims speak of.                                *)
(***************************************************************************)
\* The delivery returned b.
Returned(d, b) == d.phase = "done" /\ d.result = b

\* An attempt that failed and is retried if attempts remain: a response
\* that is neither 2xx nor 4xx, or a throw.
Retriable(o) == ~ResponseOk(o) /\ ~ClientError(o)

AllRetriable(d) == \A i \in 1..Len(d.outcomes) : Retriable(d.outcomes[i])

AllStatus(d, status) == \A i \in 1..Len(d.outcomes) : d.outcomes[i] = Response(status)

(***************************************************************************)
(* C12: For every maxRetries >= 0 a delivery makes at most maxRetries + 1  *)
(* attempts, and a delivery all of whose attempts fail retriably makes     *)
(* exactly maxRetries + 1 attempts and then returns false.                 *)
(***************************************************************************)
AttemptsBounded ==
    /\ delivery.fetches <= delivery.maxRetries + 1
    /\ Len(delivery.outcomes) <= delivery.fetches
    /\ (delivery.phase = "done" /\ AllRetriable(delivery)) =>
           /\ delivery.fetches = delivery.maxRetries + 1
           /\ Len(delivery.outcomes) = delivery.maxRetries + 1
           /\ delivery.result = FALSE

\* With maxRetries 3, four attempts failed retriably and false came back.
FourAttemptsThenFalse ==
    /\ Returned(delivery, FALSE)
    /\ delivery.maxRetries = 3
    /\ AllRetriable(delivery)
    /\ delivery.fetches = 4

(***************************************************************************)
(* C13: A 4xx response on any attempt ends the delivery at once with       *)
(* false: it is the last attempt and no backoff follows it; a 404 on the   *)
(* first attempt makes exactly one attempt.                                *)
(***************************************************************************)
ClientErrorIsTerminal ==
    \A i \in 1..Len(delivery.outcomes) :
        ClientError(delivery.outcomes[i]) =>
            /\ i = Len(delivery.outcomes)
            /\ delivery.fetches = i
            /\ Len(delivery.delays) = i - 1
            /\ Returned(delivery, FALSE)

\* With three retries allowed, a 404 on the first attempt ended it.
NotFoundOnFirstAttempt ==
    /\ delivery.maxRetries = 3
    /\ delivery.outcomes = <<Response(404)>>
    /\ delivery.fetches = 1
    /\ Returned(delivery, FALSE)

(***************************************************************************)
(* C14: When every attempt receives a 500, the delays between consecutive  *)
(* attempts are strictly increasing and each is at most 5000 ms, for every *)
(* maxRetries.                                                              *)
(***************************************************************************)
DelaysStrictlyIncreasing ==
    AllStatus(delivery, 500) =>
        /\ \A i \in 1..Len(delivery.delays) : delivery.delays[i] <= 5000
        /\ \A i \in 1..(Len(delivery.delays) - 1) :
               delivery.delays[i] < delivery.delays[i + 1]

\* C14, amended: the delays never decrease, each is at most 5000 ms, and
\* they increase strictly until the cap of 5000 ms is reached; from then
\* on (the delay after the seventh attempt and later) they stay at 5000.
DelaysIncreaseUpToCap ==
    AllStatus(delivery, 500) =>
        /\ \A i \in 1..Len(delivery.delays) : delivery.delays[i] <= 5000
        /\ \A i \in 1..(Len(delivery.delays) - 1) :
               /\ delivery.delays[i] <= delivery.delays[i + 1]
               /\ delivery.delays[i] < 5000 => delivery.delays[i] < delivery.delays[i + 1]

\* Eight 500s in a row: the seventh and the eighth delay are both 5000 ms.
TwoDelaysAtCap ==
    /\ AllStatus(delivery, 500)
    /\ Len(delivery.delays) >= 8
    /\ delivery.delays[6] = 3200
    /\ delivery.delays[7] = 5000
    /\ delivery.delays[8] = 5000

(***************************************************************************)
(* C15: After the retriable failure of attempt k (counted from 0) with     *)
(* k < maxRetries the delivery waits exactly min(100 * 2^k, 5000) ms       *)
(* before the next attempt; no delay follows the last attempt or a         *)
(* success.                                                                *)
(***************************************************************************)
BackoffSchedule ==
    /\ \A i \in 1..Len(delivery.delays) :
           delivery.delays[i] = Min(100 * Pow(2, i - 1), 5000)
    /\ Len(delivery.delays) <= delivery.maxRetries
    /\ delivery.phase = "sleeping" =>
           /\ Len(delivery.delays) = Len(delivery.outcomes)
           /\ Retriable(delivery.outcomes[Len(delivery.outcomes)])
           /\ delivery.fetches = Len(delivery.outcomes)
    /\ delivery.phase = "fetching" =>
           /\ Len(delivery.delays) = Len(delivery.outcomes)
           /\ delivery.fetches = Len(delivery.outcomes) + 1
    /\ (delivery.phase = "done" /\ Len(delivery.outcomes) > 0) =>
           Len(delivery.delays) = Len(delivery.outcomes) - 1

\* Three retries, four failures: delays of 100, 200 and 400 ms and none
\* after the fourth attempt.
ThreeBackoffsThenGiveUp ==
    /\ Returned(delivery, FALSE)
    /\ delivery.maxRetries = 3
    /\ Len(delivery.outcomes) = 4
    /\ delivery.delays = <<100, 200, 400>>

(***************************************************************************)
(* C16: A delivery returns true exactly when one of its attempts received  *)
(* a 2xx response; that attempt is its last, so a delivery is acknowledged *)
(* at most once.                                                           *)
(***************************************************************************)
TrueIffAcknowledged ==
    /\ Returned(delivery, TRUE) <=>
           \E i \in 1..Len(delivery.outcomes) : ResponseOk(delivery.outcomes[i])
    /\ \A i \in 1..Len(delivery.outcomes) :
           ResponseOk(delivery.outcomes[i]) =>
               /\ i = Len(delivery.outcomes)
               /\ delivery.fetches = i
    /\ Cardinality({i \in 1..Len(delivery.outcomes) : ResponseOk(delivery.outcomes[i])}) <= 1

\* A 500, a throw, and then a 200: true came back and nothing was logged
\* as an error.
AcknowledgedOnThirdAttempt ==
    /\ Returned(delivery, TRUE)
    /\ delivery.maxRetries = 3
    /\ delivery.outcomes = <<Response(500), Threw, Response(200)>>
    /\ delivery.errors = 0

(***************************************************************************)
(* The usage-webhook service: what the claims speak of.                    *)
(***************************************************************************)
\* The deliveries that have not finished.
InFlight == {i \in 1..Len(flights) : flights[i].d.phase # "done"}

\* The events the deliveries took from the queue, in the order of the flushes.
RECURSIVE Drained(_)
Drained(fs) == IF fs = <<>> THEN <<>> ELSE fs[1].toSend \o Drained(Tail(fs))

(***************************************************************************)
(* C17: At most one flush is in flight at any time: a flush triggered (by  *)
(* the batch size, by the periodic timer or by stop) while the delivery of *)
(* an earlier flush has not finished is not started.                       *)
(***************************************************************************)
AtMostOneFlushInFlight == Cardinality(InFlight) <= 1

(***************************************************************************)
(* C18: A flush takes every event queued at its start in one step and      *)
(* leaves the queue empty; events enqueued while its delivery is in        *)
(* progress go to a later flush; no enqueued event is in the payload of    *)
(* two flushes or split from its batch: the flushes' batches, in order,    *)
(* followed by the queue are the enqueued events.                          *)
(***************************************************************************)
EachEventInOnePlace == Drained(flights) \o service.batch = accepted

FlushTakesWholeQueue ==
    Len(flights') > Len(flights) =>
        /\ Len(flights') = Len(flights) + 1
        /\ service'.batch = <<>>
        /\ flights'[Len(flights')].toSend =
               IF accepted' = accepted THEN service.batch
               ELSE Append(service.batch, accepted'[Len(accepted')])

PayloadOfEachFlush ==
    \A i \in 1..Len(flights) :
        LET toSend == flights[i].toSend
        IN  /\ Len(toSend) >= 1
            /\ Len(toSend) = 1 => flights[i].payload = toSend[1]
            /\ Len(toSend) >= 2 => flights[i].payload = [events |-> toSend]
            /\ \A j \in 1..(Len(toSend) - 1) : toSend[j].timestamp < toSend[j + 1].timestamp

EmptyQueueSendsNothing ==
    (Len(service.batch) = 0 /\ accepted' = accepted) => Len(flights') = Len(flights)

BatchedFormWhenBatchSizeAboveOne ==
    service.batchSize > 1 =>
        \A i \in 1..Len(flights) : "events" \in DOMAIN flights[i].payload

(***************************************************************************)
(* C21: When batchSize is 1 (the default), each model.usage event is sent  *)
(* individually: the body of every webhook request is one unwrapped event, *)
(* also when events arrive while earlier deliveries are still in flight or *)
(* retrying; every accepted event has its own request and none waits in    *)
(* the queue.                                                              *)
(***************************************************************************)
EachEventSentAlone ==
    (lifecycle.phase # "created" /\ service.batchSize = 1) =>
        /\ service.batch = <<>>
        /\ Len(flights) = Len(accepted)
        /\ \A i \in 1..Len(flights) :
               /\ flights[i].toSend = <<accepted[i]>>
               /\ flights[i].payload = accepted[i]
               /\ "events" \notin DOMAIN flights[i].payload
               /\ flights[i].payload.type = "model.usage"

\* Three events, three requests: the first is backing off before a retry,
\* the second awaits its first answer, the third has just been sent.
ThreeSingleRequestsOverlap ==
    /\ service.batchSize = 1
    /\ Len(flights) = 3
    /\ flights[1].d.phase = "sleeping"
    /\ flights[2].d.phase = "fetching"
    /\ flights[3].d.phase = "fetching"
    /\ flights[3].payload = accepted[3]

\* start was called with no url in the configuration and neither
\* USAGE_WEBHOOK_URL nor OPENCLAW_USAGE_WEBHOOK_URL in the environment.
StartedWithoutUrl ==
    /\ startedWith # Null
    /\ "url" \notin DOMAIN startedWith.config
    /\ "USAGE_WEBHOOK_URL" \notin DOMAIN startedWith.env
    /\ "OPENCLAW_USAGE_WEBHOOK_URL" \notin DOMAIN startedWith.env

(***************************************************************************)
(* C22: When no webhook URL is configured, start() leaves the service      *)
(* disabled: it reports "disabled (no webhook URL configured)", creates no *)
(* subscription and no flush timer, and no webhook request is ever sent.   *)
(***************************************************************************)
DisabledWithoutUrl ==
    StartedWithoutUrl =>
        /\ logged = <<"info: disabled">>
        /\ service.unsubscribe = Null
        /\ service.flushTimer = Null
        /\ flights = <<>>

(***************************************************************************)
(* C23: stop() completes from any state of the service (never started,     *)
(* started with or without a subscription): it flushes the events queued   *)
(* when it is called, the delivery it awaits ends, and once it has         *)
(* returned there is no flush timer and no subscription, so no later       *)
(* diagnostic event is enqueued and nothing more is sent.                  *)
(***************************************************************************)
StoppedIsQuiet ==
    lifecycle.phase = "stopped" =>
        /\ service.flushTimer = Null
        /\ service.unsubscribe = Null
        /\ service.loggerRef = Null

StopFlushesQueue ==
    Stop =>
        /\ service'.batch = <<>>
        /\ service.batch # <<>> =>
               /\ Len(flights') = Len(flights) + 1
               /\ flights'[Len(flights')].toSend = service.batch
               /\ flights'[Len(flights')].by = "stop"
        /\ lifecycle'.phase \in {"stopping", "stopped"}

NothingAfterStop ==
    lifecycle.phase = "stopped" =>
        /\ accepted' = accepted
        /\ service' = service
        /\ Len(flights') = Len(flights)

StopCompletes ==
    /\ []StoppedIsQuiet
    /\ [][StopFlushesQueue]_vars
    /\ [][NothingAfterStop]_vars
    /\ (lifecycle.phase = "stopping") ~> (lifecycle.phase = "stopped")

\* stop() flushed the one queued event, awaited its delivery, which was
\* acknowledged, and returned while diagnostic events could still come.
StoppedAfterFlushingQueue ==
    /\ lifecycle.phase = "stopped"
    /\ service.batchSize > 1
    /\ Len(flights) = 1
    /\ flights[1].by = "stop"
    /\ flights[1].d = [phase |-> "done", result |-> TRUE]
    /\ nDiag < MaxDiagnosticEvents
    /\ service.unsubscribe = Null

(***************************************************************************)
(* extractUsageFromResult: what the claims speak of.                       *)
(***************************************************************************)
\* The usage record of the argument, when it has one.
UsageOfArg == usageArg.meta.agentMeta.usage

\* A field of the usage record, a missing one counted as 0.
FieldOrZero(usage, field) == IF field \in DOMAIN usage THEN usage[field] ELSE 0

(***************************************************************************)
(* C24: For an absent (null) agent result or a result with no usage        *)
(* record, the extracted usage is {prompt_tokens: 0, completion_tokens: 0, *)
(* total_tokens: 0}.                                                       *)
(***************************************************************************)
ZeroUsageWhenAbsent ==
    (usageOut # Null /\ usageArg \in NoUsageArgs) =>
        usageOut = [prompt_tokens |-> 0, completion_tokens |-> 0, total_tokens |-> 0]

\* A result whose agentMeta has no usage gave the all-zero usage.
NoUsageGaveZeros ==
    /\ usageArg = [meta |-> [agentMeta |-> [model |-> "claude"]]]
    /\ usageOut = [prompt_tokens |-> 0, completion_tokens |-> 0, total_tokens |-> 0]

(***************************************************************************)
(* C25: For every usage record, prompt_tokens = input + cacheRead +        *)
(* cacheWrite and completion_tokens = output, each missing field counted   *)
(* as 0; with non-negative inputs all three output fields are              *)
(* non-negative.                                                           *)
(***************************************************************************)
PromptAndCompletionTokens ==
    (usageOut # Null /\ usageArg \notin NoUsageArgs) =>
        /\ usageOut.prompt_tokens =
               FieldOrZero(UsageOfArg, "input") + FieldOrZero(UsageOfArg, "cacheRead")
               + FieldOrZero(UsageOfArg, "cacheWrite")
        /\ usageOut.completion_tokens = FieldOrZero(UsageOfArg, "output")
        /\ usageOut.prompt_tokens >= 0
        /\ usageOut.completion_tokens >= 0
        /\ usageOut.total_tokens >= 0

\* {input: 100, cacheRead: 50, output: 50, total: 200} gave {150, 50, 200}.
CachedPromptCounted ==
    /\ usageArg = [meta |-> Meta(UsageFull)]
    /\ usageOut = [prompt_tokens |-> 150, completion_tokens |-> 50, total_tokens |-> 200]

(***************************************************************************)
(* C26: total_tokens equals the record's total whenever total is present   *)
(* (a total of 0 and a total that differs from the derived sum too), and   *)
(* equals prompt_tokens + completion_tokens for every record without       *)
(* total.                                                                  *)
(***************************************************************************)
TotalTokens ==
    (usageOut # Null /\ usageArg \notin NoUsageArgs) =>
        IF "total" \in DOMAIN UsageOfArg
        THEN usageOut.total_tokens = UsageOfArg.total
        ELSE usageOut.total_tokens = usageOut.prompt_tokens + usageOut.completion_tokens

\* {input: 100, output: 50, total: 0} gave a total_tokens of 0, not 150.
PresentZeroTotalKept ==
    /\ usageArg = [meta |-> Meta([input |-> 100, output |-> 50, total |-> 0])]
    /\ usageOut = [prompt_tokens |-> 100, completion_tokens |-> 50, total_tokens |-> 0]

\* The usage of the agent's results, worked out by hand.
UsageByHand(result) ==
    CASE result = ResultDone ->
             [prompt_tokens |-> 100, completion_tokens |-> 50, total_tokens |-> 150]
      [] result = ResultMixed ->
             [prompt_tokens |-> 150, completion_tokens |-> 50, total_tokens |-> 200]
      [] OTHER -> [prompt_tokens |-> 0, completion_tokens |-> 0, total_tokens |-> 0]

(***************************************************************************)
(* C27: Every authorized chat-completion request gets exactly one outcome. *)
(* A request without a user message gets one 400 response and the agent is *)
(* never invoked, in streaming mode too and before any SSE output; a       *)
(* non-streaming request whose agent invocation fails gets one 500         *)
(* response; one that succeeds gets one 200 response carrying the          *)
(* extracted usage; a streaming request that is accepted gets no JSON      *)
(* response at all.                                                        *)
(***************************************************************************)
OneOutcome ==
    \A r \in Runs :
        /\ Len(json[r]) <= 1
        /\ pc[r] \in {"idle", "awaiting"} => json[r] = <<>>
        /\ pc[r] = "rejected" =>
               /\ Len(json[r]) = 1
               /\ json[r][1].status = 400
               /\ res[r] = <<>>
               /\ feed[r] = <<>>
               /\ ~subscribed[r]
               /\ webhookCalls[r] = <<>>
        /\ (~stream[r] /\ pc[r] = "failed") =>
               /\ Len(json[r]) = 1
               /\ json[r][1].status = 500
               /\ res[r] = <<>>
        /\ (~stream[r] /\ pc[r] = "resolved") =>
               /\ Len(json[r]) = 1
               /\ json[r][1].status = 200
               /\ "usage" \in DOMAIN json[r][1].body
               /\ res[r] = <<>>
        /\ (stream[r] /\ pc[r] # "rejected") => json[r] = <<>>

RejectedIsFinal == \A r \in Runs : pc[r] = "rejected" => pc'[r] = "rejected"

SuccessCarriesUsage ==
    \A r \in Runs, result \in AgentResults :
        (AgentResolve(r, result) /\ ~stream[r]) =>
            json'[r] = <<[status |-> 200,
                          body |-> [id |-> r, object |-> "chat.completion",
                                    choices |-> <<[index |-> 0,
                                                   message |-> [role |-> "assistant",
                                                                content |-> ResultContent(result)],
                                                   finish_reason |-> "stop"]>>,
                                    usage |-> UsageByHand(result)]]>>

ExactlyOneOutcome ==
    /\ []OneOutcome
    /\ [][RejectedIsFinal]_vars
    /\ [][SuccessCarriesUsage]_vars

\* A streaming request without a user message was answered 400 and wrote
\* nothing to the stream.
StreamingRequestRejected ==
    \E r \in Runs :
        /\ pc[r] = "rejected"
        /\ stream[r]
        /\ json[r][1].status = 400
        /\ res[r] = <<>>

\* The step is one of run r: its request, an event published for it, its
\* client's disconnect, or the settling of its agent command.
StepOf(r) == pc'[r] # pc[r] \/ closeHandler'[r] # closeHandler[r] \/ feed'[r] # feed[r]

\* The step changed the response or the session of run r.
Touched(r) ==
    \/ res'[r] # res[r]
    \/ json'[r] # json[r]
    \/ wroteRole'[r] # wroteRole[r]
    \/ sawAssistantDelta'[r] # sawAssistantDelta[r]
    \/ closed'[r] # closed[r]
    \/ subscribed'[r] # subscribed[r]
    \/ streamResult'[r] # streamResult[r]
    \/ emitted'[r] # emitted[r]

(***************************************************************************)
(* C28: With two concurrent streaming runs on the process-wide event feed, *)
(* an event, an agent failure or a client disconnect of one run never      *)
(* writes to the other run's response nor changes the other run's session  *)
(* flags: every step belongs to one run, only that run is touched, and     *)
(* every chunk in a response carries that response's run id.               *)
(***************************************************************************)
OwnChunksOnly ==
    \A r \in Runs :
        \A i \in 1..Len(res[r]) : IsChunk(res[r][i]) => res[r][i].data.id = r

OnlyOwnRunTouched ==
    /\ \A r1, r2 \in Runs : (StepOf(r1) /\ StepOf(r2)) => r1 = r2
    /\ \A r \in Runs : Touched(r) => StepOf(r)

RunsAreIsolated == []OwnChunksOnly /\ [][OnlyOwnRunTouched]_vars

\* One run failed and ended its stream while the other, open and with a
\* delta written, still awaits its agent command.
OneFailedOtherStreaming ==
    \E r1, r2 \in Runs :
        /\ r1 # r2
        /\ Finalized(r1)
        /\ pc[r1] = "failed"
        /\ pc[r2] = "awaiting"
        /\ ~closed[r2]
        /\ subscribed[r2]
        /\ sawAssistantDelta[r2]
        /\ Len(res[r2]) = 2

(***************************************************************************)
(* C29: Every streaming run eventually reaches CLOSED with its event       *)
(* subscription removed, provided its agent invocation eventually settles  *)
(* or its client disconnects: the run is closed as soon as either has      *)
(* happened.  CLOSED is terminal: once closed is true it stays true, the    *)
(* subscription stays removed and the run never writes again.              *)
(***************************************************************************)
ClosedOnceSettledOrDisconnected ==
    \A r \in Runs :
        /\ (stream[r] /\ (pc[r] \in {"resolved", "failed"} \/ closeHandler[r] = "fired"))
               => closed[r]
        /\ closed[r] => ~subscribed[r]

ClosedStaysClosed ==
    \A r \in Runs :
        closed[r] => (closed'[r] /\ ~subscribed'[r] /\ res'[r] = res[r])

EveryRunCloses ==
    /\ []ClosedOnceSettledOrDisconnected
    /\ [][ClosedStaysClosed]_vars
    /\ \A r \in Runs : (stream[r] /\ pc[r] = "awaiting") ~> (closed[r] /\ ~subscribed[r])

\* A run was closed by its client's disconnect in mid-stream, its agent
\* command still running.
ClosedMidStream ==
    \E r \in Runs :
        /\ stream[r]
        /\ closeHandler[r] = "fired"
        /\ pc[r] = "awaiting"
        /\ closed[r]
        /\ ~subscribed[r]
        /\ Len(res[r]) = 2

(***************************************************************************)
(* C30: In batching mode (batchSize > 1) a flush is started in the step in *)
(* which enqueuing an event brings the queue length to batchSize, so       *)
(* between steps the queue never holds batchSize or more events; a         *)
(* periodic flush timer exists if and only if batchSize > 1.               *)
(***************************************************************************)
TimerIffBatching ==
    /\ service.batchSize > 1 => Len(service.batch) < service.batchSize
    /\ (service.flushTimer # Null) <=> (service.batchSize > 1)

\* C30, amended: the queue of a batching service never holds batchSize or
\* more events between steps; while the service is subscribed to the
\* diagnostic events a flush timer exists if and only if batchSize > 1, and
\* there is none when start found no onDiagnosticEvent in its context or
\* after stop; the enqueuing that fills the batch starts the flush in the
\* same step and no earlier enqueuing does; a timer tick flushes a
\* non-empty queue, which then holds fewer than batchSize events.
QueueBelowBatchSize ==
    /\ service.batchSize > 1 => Len(service.batch) < service.batchSize
    /\ service.unsubscribe # Null =>
           ((service.flushTimer # Null) <=> (service.batchSize > 1))
    /\ service.flushTimer # Null =>
           (service.batchSize > 1 /\ service.unsubscribe # Null)

FullBatchFlushedAtOnce ==
    \A evt \in DiagnosticEvents(nDiag + 1) :
        (DiagnosticEvent(evt) /\ evt.type = "model.usage" /\ service.batchSize > 1) =>
            IF Len(service.batch) + 1 = service.batchSize
            THEN /\ Len(flights') = Len(flights) + 1
                 /\ flights'[Len(flights')].by = "event"
                 /\ Len(flights'[Len(flights')].toSend) = service.batchSize
                 /\ service'.batch = <<>>
            ELSE /\ flights' = flights
                 /\ Len(service'.batch) = Len(service.batch) + 1

TimerFlushesPartialQueue ==
    (TimerTick /\ Len(service.batch) > 0) =>
        /\ Len(service.batch) < service.batchSize
        /\ Len(flights') = Len(flights) + 1
        /\ flights'[Len(flights')].by = "timer"
        /\ flights'[Len(flights')].toSend = service.batch
        /\ service'.batch = <<>>

BatchingTriggers ==
    /\ []QueueBelowBatchSize
    /\ [][FullBatchFlushedAtOnce]_vars
    /\ [][TimerFlushesPartialQueue]_vars

\* With batchSize 2, the second event filled the batch and flushed it; the
\* third waited for the timer.
FullBatchThenTimer ==
    /\ service.batchSize = 2
    /\ service.flushTimer # Null
    /\ Len(flights) = 2
    /\ flights[1].by = "event"
    /\ Len(flights[1].toSend) = 2
    /\ flights[2].by = "timer"
    /\ Len(flights[2].toSend) = 1

\* The content each result stands for, written out.
ContentByHand(result) ==
    CASE result = ResultDone -> "Done."
      [] result = ResultMixed -> "A\n\nB"
      [] result = ResultEmptyTexts -> ""
      [] OTHER -> "No response from OpenClaw."

\* The content of the response a non-streaming run answered with.
AnsweredContent(r) == json[r][Len(json[r])].body.choices[1].message.content

\* The contents of the chunks the task of a streaming run synthesized.
SynthesizedContents(r) ==
    LET chunks == SelectSeq(res[r], IsSynthesized)
    IN  [i \in 1..Len(chunks) |-> Choice(chunks[i]).delta.content]

\* C31: for every agent result, the content of the non-streaming response
\* and the content of the chunk the streaming path synthesizes when it saw
\* no delta are the same string: the non-empty payload texts joined by a
\* blank line, and the fallback string exactly when the result has no
\* payloads (payloads without any text give the empty string).
SameContentOnBothPaths ==
    [][\A r \in SoloRuns, result \in ContentResults :
          AgentResolve(r, result) =>
              IF stream[r]
              THEN (~sawAssistantDelta[r] /\ ~closed[r]) =>
                       SynthesizedContents(r)' = <<ContentByHand(result)>>
              ELSE /\ Len(json'[r]) = 1
                   /\ AnsweredContent(r)' = ContentByHand(result)]_vars

\* A streaming run that saw only events without text resolved with payloads
\* that carry no text, and synthesized the empty string.
SynthesizedEmptyString ==
    \E r \in SoloRuns :
        /\ Finalized(r)
        /\ pc[r] = "resolved"
        /\ streamResult[r] = ResultEmptyTexts
        /\ Len(feed[r]) >= 1
        /\ SynthesizedContents(r) = <<"">>

\* An assistant event whose delta and text are each absent, not a string or
\* the empty string.
WithoutText(evt) == evt.stream = "assistant" /\ evt.data \in EmptyData

EmptyEventChangesNothing ==
    \A evt \in ContentEvents :
        (Publish(evt) /\ WithoutText(evt)) =>
            UNCHANGED <<wroteRole, sawAssistantDelta, closed, streamResult, subscribed,
                        res, json, webhookCalls, emitted>>

OnlyEmptyEventsThenSynthesis ==
    \A r \in SoloRuns :
        (Finalized(r) /\ pc[r] = "resolved"
            /\ \A i \in 1..Len(feed[r]) : WithoutText(feed[r][i].evt)) =>
                /\ Len(res[r]) = 5
                /\ IsRole(res[r][1]) /\ res[r][1].by = "task"
                /\ IsSynthesized(res[r][2])
                /\ IsStop(res[r][3])

\* C32: an assistant event whose delta and text are both absent, non-string
\* or empty writes nothing and changes no flag of the run, so a run that
\* received only such events gets the role chunk and the synthesized content
\* chunk from its task when the agent command resolves.
EmptyEventsAreInert ==
    /\ []OnlyEmptyEventsThenSynthesis
    /\ [][EmptyEventChangesNothing]_vars

\* Three different events without text reached the listener of a streaming
\* run, which then resolved.
ThreeEmptyEventsThenResolved ==
    \E r \in SoloRuns :
        /\ Finalized(r)
        /\ pc[r] = "resolved"
        /\ Len(feed[r]) = 3
        /\ \A i \in 1..3 : feed[r][i].live /\ WithoutText(feed[r][i].evt)
        /\ feed[r][1].evt.data = [delta |-> Num(42)]
        /\ feed[r][2].evt.data = [text |-> Str("")]
        /\ feed[r][3].evt.data = Undefined
        /\ Count(res[r], IsSynthesized) = 1

\* The accepted event number k was drained from the queue into a delivery.
HandedToDelivery(k) == Len(Drained(flights)) >= k

\* C33: every model.usage event the subscription accepts into the queue is
\* eventually handed to a delivery, the events accepted while stop() awaits
\* its final flush included: no accepted event stays in the queue forever.
AcceptedEventuallyHanded ==
    \A k \in 1..MaxDiagnosticEvents :
        (Len(accepted) >= k) ~> HandedToDelivery(k)

\* No payload was pushed onto the queue twice.
EnqueuedOnce ==
    \A i, j \in 1..Len(accepted) : accepted[i] = accepted[j] => i = j

\* C34: after any sequence of start() and stop() calls on one service
\* instance at most one diagnostic-event subscription and at most one flush
\* timer are active, so each model.usage event is enqueued at most once.
OneSubscriptionOneTimer ==
    /\ subscriptions <= 1
    /\ intervals <= 1
    /\ EnqueuedOnce

\* C35: batches reach the webhook endpoint in the order in which they were
\* drained from the queue: a batch drained later is never successfully
\* delivered while the delivery of a batch drained earlier is unfinished.
DeliveredInDrainOrder ==
    \A i, j \in 1..Len(flights) :
        (i < j /\ Returned(flights[j].d, TRUE)) => flights[i].d.phase = "done"

\* The answered requests that set or deleted the profile id, in the order
\* of their answers.
Touches(id) ==
    SelectSeq(applied, LAMBDA i : /\ requests[i].route \in {"api-key", "token", "profile"}
                                  /\ requests[i].body.profileId = id)

\* The profile id is in the file as the last answered request on it left it,
\* or as the seed had it when no request touched it.
ProfileReflectsLastRequest(id) ==
    LET t == Touches(id)
        q == requests[t[Len(t)]]
        stored == authFile.profiles
    IN  IF t = <<>>
        THEN /\ (id \in DOMAIN stored) <=> (id \in DOMAIN SeedFile.profiles)
             /\ id \in DOMAIN stored => stored[id] = SeedFile.profiles[id]
        ELSE CASE q.route = "profile" -> id \notin DOMAIN stored
               [] q.route = "api-key" ->
                      /\ id \in DOMAIN stored
                      /\ stored[id].type = "api_key"
                      /\ stored[id].provider = q.body.provider
                      /\ stored[id].key = q.body.key
               [] q.route = "token" ->
                      /\ id \in DOMAIN stored
                      /\ stored[id].type = "token"
                      /\ stored[id].provider = q.body.provider
                      /\ stored[id].token = q.body.token

\* The position in applied of the last answered PUT of the order, 0 for none.
LastPut ==
    LET puts == {k \in 1..Len(applied) : requests[applied[k]].route = "order"}
    IN  IF puts = {} THEN 0 ELSE CHOOSE k \in puts : \A j \in puts : j <= k

\* The profiles deleted by requests answered after position k of applied.
DeletedAfter(k) ==
    {requests[applied[j]].body.profileId :
         j \in {j \in (k + 1)..Len(applied) : requests[applied[j]].route = "profile"}}

\* The order list a PUT asks for, its blank and repeated entries dropped.
AskedOrder(q) == IF q.body.order = <<>> THEN <<>> ELSE <<"home", "work">>

\* The order of provider openai is what the last answered PUT asked for (the
\* seed's without one), less the profiles deleted since.
OrderReflectsLastRequest ==
    LET base == IF LastPut = 0 THEN SeedFile.order.openai
                ELSE AskedOrder(requests[applied[LastPut]])
        expected == SelectSeq(base, LAMBDA id : id \notin DeletedAfter(LastPut))
    IN  IF expected = <<>> THEN "order" \notin DOMAIN authFile
        ELSE "order" \in DOMAIN authFile /\ authFile.order = [openai |-> expected]

StoreReflectsRequests ==
    /\ \A id \in {"work", "home"} : ProfileReflectsLastRequest(id)
    /\ OrderReflectsLastRequest

\* The file changes only in the step in which one request is answered 200.
FileChangesOnlyOnAnswer ==
    authFile' # authFile =>
        /\ Len(applied') = Len(applied) + 1
        /\ \E i \in 1..Len(requests) :
               /\ requests[i].pc = "parsing"
               /\ requests'[i].pc = "done"
               /\ requests'[i].status = 200

NoTraceOf(id, file) ==
    /\ id \notin DOMAIN file.profiles
    /\ "order" \in DOMAIN file =>
           /\ DOMAIN file.order # {}
           /\ \A pr \in DOMAIN file.order :
                  /\ Len(file.order[pr]) > 0
                  /\ \A k \in 1..Len(file.order[pr]) : file.order[pr][k] # id
    /\ "lastGood" \in DOMAIN file =>
           /\ DOMAIN file.lastGood # {}
           /\ \A pr \in DOMAIN file.lastGood : file.lastGood[pr] # id
    /\ "usageStats" \in DOMAIN file =>
           /\ DOMAIN file.usageStats # {}
           /\ id \notin DOMAIN file.usageStats

DeletedNowhere ==
    \A i \in 1..Len(requests) :
        (requests[i].route = "profile" /\ requests[i].status = 200) =>
            NoTraceOf(requests[i].body.profileId, authFile)

UnknownIdIsNotFound ==
    \A i \in 1..Len(requests) :
        (/\ requests[i].pc = "parsing"
         /\ requests'[i].pc = "done"
         /\ requests[i].route = "profile"
         /\ requests[i].body # Null
         /\ requests[i].body.profileId \notin DOMAIN authFile.profiles) =>
            /\ requests'[i].status = 404
            /\ authFile' = authFile

\* C37: after a successful DELETE of a profile its id is nowhere in the
\* file (not in profiles, in no order list, no lastGood, not in usageStats)
\* and no empty order list or empty order, lastGood or usageStats map is
\* left; a DELETE of an id that is not in profiles is answered 404 and
\* leaves the file as it was.
DeleteLeavesNoTrace ==
    /\ []DeletedNowhere
    /\ [][UnknownIdIsNotFound]_vars
====
